---- MODULE Spec2Model ----
(***************************************************************************)
(* Model of the Keithley 6485/6487 asyn port drivers                       *)
(*   src/k6485App/src/drvAsynKeithley6485.cpp   (driver "6485")            *)
(*   src/k648xApp/src/drvAsynKeithley648x.cpp   (driver "648x")            *)
(* C strings are sequences of one-character strings; a char buffer that    *)
(* the code cuts in place holds the character NUL where a '\0' was stored. *)
(* A double is an exact decimal [m |-> mantissa, e |-> exponent] (value    *)
(* m * 10^e, m without trailing zeros), which is exact for every reply     *)
(* text the model feeds to atof.                                           *)
(***************************************************************************)
EXTENDS Integers, Sequences, FiniteSets, TLC

(***************************************************************************)
(* Bounds of the model                                                     *)
(***************************************************************************)
\* exchanges the host may start after setup has returned
MaxHostExchanges == 2

(***************************************************************************)
(* C library: characters, strings, atoi, atof, sprintf                     *)
(***************************************************************************)
NUL == "\\0"
\* the NULL pointer where a C string is expected (no C string equals it)
NullPtr == <<"NULL">>
\* a value the code has not stored: *data, a length, an end-of-message reason
NoValue == <<>>
NoLength == -1
NoEom == -1

Digits == <<"0","1","2","3","4","5","6","7","8","9">>

IsDigit(c) == \E i \in 1..10 : Digits[i] = c

DigitVal(c) == (CHOOSE i \in 1..10 : Digits[i] = c) - 1

IsSpace(c) == c \in {" ", "\t", "\n", "\r"}

CharAt(s, i) == IF i >= 1 /\ i <= Len(s) THEN s[i] ELSE NUL

\* the C string that starts at index p of buffer buf: up to the next NUL
RECURSIVE CStrEnd(_, _)
CStrEnd(buf, p) ==
  IF CharAt(buf, p) = NUL THEN p - 1 ELSE CStrEnd(buf, p + 1)

CStr(buf, p) == SubSeq(buf, p, CStrEnd(buf, p))

strlen(s) == Len(CStr(s, 1))

\* strchr(buf + from - 1, c): index of the first c in the C string at from, 0 for NULL
RECURSIVE strchr(_, _, _)
strchr(buf, from, c) ==
  IF CharAt(buf, from) = NUL THEN 0
  ELSE IF buf[from] = c THEN from
  ELSE strchr(buf, from + 1, c)

\* toupper of the C locale
LowerCase == <<"a","b","c","d","e","f","g","h","i","j","k","l","m",
               "n","o","p","q","r","s","t","u","v","w","x","y","z">>

UpperCase == <<"A","B","C","D","E","F","G","H","I","J","K","L","M",
               "N","O","P","Q","R","S","T","U","V","W","X","Y","Z">>

toupperAsIs(c) == c

toupper(c) ==
  IF \E i \in 1..26 : LowerCase[i] = c
  THEN UpperCase[CHOOSE i \in 1..26 : LowerCase[i] = c]
  ELSE c

\* epicsStrCaseCmp of two C strings: 0 when they are equal once every
\* character is upper-cased, not 0 (here 1) otherwise
RECURSIVE epicsStrCaseCmp(_, _)
epicsStrCaseCmp(s1, s2) ==
  LET ch1 == IF s1 = <<>> THEN NUL ELSE toupper(Head(s1))
      ch2 == IF s2 = <<>> THEN NUL ELSE toupper(Head(s2))
  IN  IF ch2 = NUL THEN (IF ch1 = NUL THEN 0 ELSE 1)
      ELSE IF ch1 # ch2 THEN 1
      ELSE epicsStrCaseCmp(Tail(s1), Tail(s2))

RECURSIVE SkipSpace(_, _)
SkipSpace(s, i) == IF IsSpace(CharAt(s, i)) THEN SkipSpace(s, i + 1) ELSE i

\* digits from index i on: value acc extended, n digits read, pos the first non-digit
RECURSIVE ScanDigits(_, _, _, _)
ScanDigits(s, i, acc, n) ==
  IF IsDigit(CharAt(s, i))
  THEN ScanDigits(s, i + 1, 10 * acc + DigitVal(s[i]), n + 1)
  ELSE [val |-> acc, n |-> n, pos |-> i]

SignAt(s, i) == IF CharAt(s, i) = "-" THEN -1 ELSE 1

AfterSign(s, i) == IF CharAt(s, i) \in {"-", "+"} THEN i + 1 ELSE i

atoi(s) ==
  LET i == SkipSpace(s, 1)
      d == ScanDigits(s, AfterSign(s, i), 0, 0)
  IN  SignAt(s, i) * d.val

RECURSIVE Pow10(_)
Pow10(n) == IF n <= 0 THEN 1 ELSE 10 * Pow10(n - 1)

RECURSIVE Norm(_)
Norm(d) ==
  IF d.m = 0 THEN [m |-> 0, e |-> 0]
  ELSE IF d.m % 10 = 0 THEN Norm([m |-> d.m \div 10, e |-> d.e + 1])
  ELSE d

Dec(m, e) == Norm([m |-> m, e |-> e])

DecZero == Dec(0, 0)

atof(s) ==
  LET i    == SkipSpace(s, 1)
      ip   == ScanDigits(s, AfterSign(s, i), 0, 0)
      fp   == IF CharAt(s, ip.pos) = "."
              THEN ScanDigits(s, ip.pos + 1, ip.val, 0)
              ELSE [val |-> ip.val, n |-> 0, pos |-> ip.pos]
      ex   == IF CharAt(s, fp.pos) \in {"e", "E"}
              THEN ScanDigits(s, AfterSign(s, fp.pos + 1), 0, 0)
              ELSE [val |-> 0, n |-> 0, pos |-> fp.pos]
      expo == IF ex.n > 0 THEN SignAt(s, fp.pos + 1) * ex.val ELSE 0
  IN  IF ip.n + fp.n = 0 THEN DecZero
      ELSE Dec(SignAt(s, i) * fp.val, expo - fp.n)

\* a > b on doubles
DecGT(a, b) ==
  LET lo == IF a.e < b.e THEN a.e ELSE b.e
  IN  a.m * Pow10(a.e - lo) > b.m * Pow10(b.e - lo)

\* the C conversion (int) d: truncation toward zero
DecToInt(d) ==
  IF d.e >= 0 THEN d.m * Pow10(d.e)
  ELSE IF d.m >= 0 THEN d.m \div Pow10(-d.e)
  ELSE -((-d.m) \div Pow10(-d.e))

\* sprintf "%d"
RECURSIVE NatToStr(_)
NatToStr(n) ==
  IF n < 10 THEN <<Digits[n + 1]>>
  ELSE Append(NatToStr(n \div 10), Digits[(n % 10) + 1])

IntToStr(n) == IF n < 0 THEN <<"-">> \o NatToStr(-n) ELSE NatToStr(n)

\* sprintf "%g" for the values the drivers format: at most 6 significant
\* digits and a decimal exponent in -4..5, printed in fixed notation
RECURSIVE ZeroPad(_, _)
ZeroPad(s, n) == IF Len(s) >= n THEN s ELSE ZeroPad(<<"0">> \o s, n)

FormatG(d) ==
  IF d.e >= 0 THEN IntToStr(d.m * Pow10(d.e))
  ELSE LET mag == IF d.m < 0 THEN -d.m ELSE d.m
           ds  == ZeroPad(NatToStr(mag), 1 - d.e)
           cut == Len(ds) + d.e
       IN  (IF d.m < 0 THEN <<"-">> ELSE <<>>)
             \o SubSeq(ds, 1, cut) \o <<".">> \o SubSeq(ds, cut + 1, Len(ds))

(***************************************************************************)
(* Symbolic constants, enumerations and command tables                     *)
(***************************************************************************)
BUFFER_SIZE == 100

asynSuccess == "asynSuccess"
asynTimeout == "asynTimeout"
asynError == "asynError"

Octet == 1
Float64 == 2
Int32 == 3
Type == {Octet, Float64, Int32}

SIMPLE_TRIGGER == 0
SIMPLE_INT32 == Int32

Drivers == {"6485", "648x"}

GenCommand(r, w) == [readFunc |-> r, writeFunc |-> w]

genCommandTable(drv) ==
  LET base ==
        [c \in {"VOID_CMD", "READ_CMD", "RANGE_CMD", "RANGE_AUTO_ULIMIT_CMD",
                "RANGE_AUTO_LLIMIT_CMD", "RATE_CMD"} |->
           CASE c = "VOID_CMD" -> GenCommand("readDummy", "writeDummy")
             [] c = "READ_CMD" -> GenCommand("readSensorReading", "writeDummy")
             [] c = "RATE_CMD" -> GenCommand("readRate", "writeRate")
             [] OTHER -> GenCommand("readRange", "writeRange")]
  IN  IF drv = "6485" THEN base
      ELSE base @@ [c \in {"DIGITAL_FILTER_CONTROL_CMD", "VOLT_RANGE_CMD"} |->
                      GenCommand("readCommon", "writeCommon")]

SimpleCommand(t, s) == [type |-> t, cmd_str |-> s]

simpleCommandTable(drv) ==
  LET base ==
        [c \in {"RANGE_AUTO_CMD", "ZERO_CHECK_CMD", "ZERO_CORRECT_CMD",
                "ZERO_CORRECT_ACQUIRE_CMD"} |->
           CASE c = "RANGE_AUTO_CMD" -> SimpleCommand(SIMPLE_INT32, <<":","R","A","N","G","E",":","A","U","T","O">>)
             [] c = "ZERO_CHECK_CMD" -> SimpleCommand(SIMPLE_INT32, <<"S","Y","S","T",":","Z","C","H">>)
             [] c = "ZERO_CORRECT_CMD" -> SimpleCommand(SIMPLE_INT32, <<"S","Y","S","T",":","Z","C","O","R">>)
             [] OTHER -> SimpleCommand(SIMPLE_TRIGGER, <<"S","Y","S","T",":","Z","C","O","R",":","A","C","Q">>)]
  IN  IF drv = "6485" THEN base
      ELSE base @@
           [c \in {"RESET_CMD", "MEDIAN_FILTER_CMD", "MEDIAN_FILTER_RANK_CMD",
                   "DIGITAL_FILTER_CMD", "DIGITAL_FILTER_COUNT_CMD"} |->
              CASE c = "RESET_CMD" -> SimpleCommand(SIMPLE_TRIGGER, <<"*","R","S","T">>)
                [] c = "MEDIAN_FILTER_CMD" -> SimpleCommand(SIMPLE_INT32, <<"M","E","D">>)
                [] c = "MEDIAN_FILTER_RANK_CMD" -> SimpleCommand(SIMPLE_INT32, <<"M","E","D",":","R","A","N","K">>)
                [] c = "DIGITAL_FILTER_CMD" -> SimpleCommand(SIMPLE_INT32, <<"A","V","E","R">>)
                [] OTHER -> SimpleCommand(SIMPLE_INT32, <<"A","V","E","R",":","C","O","U","N">>)]

CMD_GEN == "CMD_GEN"
CMD_SIMPLE == "CMD_SIMPLE"
CMD_CACHE == "CMD_CACHE"

DEV_ALL == 0
DEV_6485 == 1
DEV_6487 == 2

Command(tag, dev, type, id) == [tag |-> tag, dev |-> dev, type |-> type, id |-> id]

GenRows6485 ==
  << Command(<<"V","O","I","D">>, DEV_ALL, CMD_GEN, "VOID_CMD"),
     Command(<<"R","E","A","D">>, DEV_ALL, CMD_GEN, "READ_CMD"),
     Command(<<"R","A","N","G","E">>, DEV_ALL, CMD_GEN, "RANGE_CMD"),
     Command(<<"R","A","N","G","E","_","A","U","T","O","_","U","L","I","M","I","T">>, DEV_ALL, CMD_GEN, "RANGE_AUTO_ULIMIT_CMD"),
     Command(<<"R","A","N","G","E","_","A","U","T","O","_","L","L","I","M","I","T">>, DEV_ALL, CMD_GEN, "RANGE_AUTO_LLIMIT_CMD"),
     Command(<<"R","A","T","E">>, DEV_ALL, CMD_GEN, "RATE_CMD") >>

MoreRows648x ==
  << Command(<<"D","I","G","I","T","A","L","_","F","I","L","T","E","R","_","C","O","N","T","R","O","L">>, DEV_ALL, CMD_GEN, "DIGITAL_FILTER_CONTROL_CMD"),
     Command(<<"V","O","L","T","_","R","A","N","G","E">>, DEV_6487, CMD_GEN, "VOLT_RANGE_CMD"),
     Command(<<"R","E","S","E","T">>, DEV_ALL, CMD_SIMPLE, "RESET_CMD") >>

SimpleRows6485 ==
  << Command(<<"R","A","N","G","E","_","A","U","T","O">>, DEV_ALL, CMD_SIMPLE, "RANGE_AUTO_CMD"),
     Command(<<"Z","E","R","O","_","C","H","E","C","K">>, DEV_ALL, CMD_SIMPLE, "ZERO_CHECK_CMD"),
     Command(<<"Z","E","R","O","_","C","O","R","R","E","C","T">>, DEV_ALL, CMD_SIMPLE, "ZERO_CORRECT_CMD"),
     Command(<<"Z","E","R","O","_","C","O","R","R","E","C","T","_","A","C","Q","U","I","R","E">>, DEV_ALL, CMD_SIMPLE, "ZERO_CORRECT_ACQUIRE_CMD") >>

SimpleRows648x ==
  << Command(<<"M","E","D","I","A","N","_","F","I","L","T","E","R">>, DEV_ALL, CMD_SIMPLE, "MEDIAN_FILTER_CMD"),
     Command(<<"M","E","D","I","A","N","_","F","I","L","T","E","R","_","R","A","N","K">>, DEV_ALL, CMD_SIMPLE, "MEDIAN_FILTER_RANK_CMD"),
     Command(<<"D","I","G","I","T","A","L","_","F","I","L","T","E","R">>, DEV_ALL, CMD_SIMPLE, "DIGITAL_FILTER_CMD"),
     Command(<<"D","I","G","I","T","A","L","_","F","I","L","T","E","R","_","C","O","U","N","T">>, DEV_ALL, CMD_SIMPLE, "DIGITAL_FILTER_COUNT_CMD") >>

CacheRows ==
  << Command(<<"M","O","D","E","L">>, DEV_ALL, CMD_CACHE, "MODEL_CMD"),
     Command(<<"S","E","R","I","A","L">>, DEV_ALL, CMD_CACHE, "SERIAL_CMD"),
     Command(<<"D","I","G","_","R","E","V">>, DEV_ALL, CMD_CACHE, "DIG_REV_CMD"),
     Command(<<"D","I","S","P","_","R","E","V">>, DEV_ALL, CMD_CACHE, "DISP_REV_CMD"),
     Command(<<"B","R","D","_","R","E","V">>, DEV_ALL, CMD_CACHE, "BRD_REV_CMD"),
     Command(<<"T","I","M","E","S","T","A","M","P">>, DEV_ALL, CMD_CACHE, "TIMESTAMP_CMD"),
     Command(<<"S","T","A","T","U","S","_","R","A","W">>, DEV_ALL, CMD_CACHE, "STATUS_RAW_CMD"),
     Command(<<"S","T","A","T","U","S","_","O","V","E","R","F","L","O","W">>, DEV_ALL, CMD_CACHE, "STATUS_OVERFLOW_CMD"),
     Command(<<"S","T","A","T","U","S","_","F","I","L","T","E","R">>, DEV_ALL, CMD_CACHE, "STATUS_FILTER_CMD"),
     Command(<<"S","T","A","T","U","S","_","M","A","T","H">>, DEV_ALL, CMD_CACHE, "STATUS_MATH_CMD"),
     Command(<<"S","T","A","T","U","S","_","N","U","L","L">>, DEV_ALL, CMD_CACHE, "STATUS_NULL_CMD"),
     Command(<<"S","T","A","T","U","S","_","L","I","M","I","T","S">>, DEV_ALL, CMD_CACHE, "STATUS_LIMITS_CMD"),
     Command(<<"S","T","A","T","U","S","_","O","V","E","R","V","O","L","T","A","G","E">>, DEV_ALL, CMD_CACHE, "STATUS_OVERVOLTAGE_CMD"),
     Command(<<"S","T","A","T","U","S","_","Z","E","R","O","_","C","H","E","C","K">>, DEV_ALL, CMD_CACHE, "STATUS_ZERO_CHECK_CMD"),
     Command(<<"S","T","A","T","U","S","_","Z","E","R","O","_","C","O","R","R","E","C","T">>, DEV_ALL, CMD_CACHE, "STATUS_ZERO_CORRECT_CMD") >>

\* the table of each source file, in the file's row order (indices from 0 in C, from 1 here)
commandTable(drv) ==
  IF drv = "6485" THEN GenRows6485 \o SimpleRows6485 \o CacheRows
  ELSE GenRows6485 \o MoreRows648x \o SimpleRows6485 \o SimpleRows648x \o CacheRows

COMMAND_NUMBER(drv) == Len(commandTable(drv))

\* wire commands
CmdCLS == <<"*","C","L","S">>
CmdIDN == <<"*","I","D","N","?">>
CmdREAD == <<"R","E","A","D","?">>
CmdNPLCQuery == <<":","N","P","L","C","?">>
CmdNPLC == <<":","N","P","L","C"," ">>
CmdTCONQuery == <<"A","V","E","R",":","T","C","O","N","?">>
CmdTCONMOV == <<"A","V","E","R",":","T","C","O","N"," ","M","O","V">>
CmdTCONREP == <<"A","V","E","R",":","T","C","O","N"," ","R","E","P">>
CmdRANGE == <<":","R","A","N","G","E">>
CmdULIM == <<":","R","A","N","G","E",":","A","U","T","O",":","U","L","I","M">>
CmdLLIM == <<":","R","A","N","G","E",":","A","U","T","O",":","L","L","I","M">>

(***************************************************************************)
(* The transport (asynOctetSyncIO) as the drivers see it: the outcome of   *)
(* one exchange is the reported status, whether fewer bytes were written   *)
(* than requested, and the reply text and end-of-message reason.           *)
(***************************************************************************)
ASYN_EOM_EOS == 2

IoOk(reply) == [status |-> asynSuccess, short |-> FALSE, reply |-> reply]

\* no exchange took place
NoIo == [status |-> "none", short |-> FALSE, reply |-> <<>>]

IoFailures ==
  { [status |-> asynTimeout, short |-> FALSE, reply |-> <<>>],
    [status |-> asynError,   short |-> FALSE, reply |-> <<>>],
    [status |-> asynSuccess, short |-> TRUE,  reply |-> <<>>] }

IoOutcomes(replies) == {IoOk(r) : r \in replies} \cup IoFailures

\* bytes the transport reports as written for a request of n bytes
nActualOf(io, n) == IF io.short THEN n - 1 ELSE n

\* variant: the byte count is not looked at
IoStatusTrusted(status, nActual, nRequested) == status

\* status after the byte-count test of writeOnly / writeRead
IoStatus(status, nActual, nRequested) ==
  IF nActual # nRequested THEN asynError ELSE status

\* variant: a failed exchange is counted as a success
CountExchangeMiscounted(stats, status, ok) == [stats EXCEPT ![ok] = @ + 1]

\* the statistics after an exchange that ended with status; ok names the success counter
CountExchange(stats, status, ok) ==
  IF status # asynSuccess
  THEN [stats EXCEPT !.ioErrors = @ + 1]
  ELSE [stats EXCEPT ![ok] = @ + 1]

writeOnly(pport, outBuf, io) ==
  LET nRequested == strlen(outBuf)
      status     == IoStatus(io.status, nActualOf(io, nRequested), nRequested)
  IN  [status |-> status,
       pport  |-> [pport EXCEPT !.stats = CountExchange(@, status, "writeOnlys")],
       sent   |-> <<[kind |-> "write", cmd |-> outBuf]>>]

\* inpBuf is the reply cut to inputSize - 1 characters; on failure it is not set
writeRead(pport, outBuf, inputSize, io) ==
  LET nWriteRequested == strlen(outBuf)
      status == IoStatus(io.status, nActualOf(io, nWriteRequested), nWriteRequested)
      nRead  == IF Len(io.reply) < inputSize - 1 THEN Len(io.reply) ELSE inputSize - 1
  IN  [status |-> status,
       pport  |-> [pport EXCEPT !.stats = CountExchange(@, status, "writeReads")],
       inpBuf |-> IF status = asynSuccess THEN SubSeq(io.reply, 1, nRead) ELSE NullPtr,
       eom    |-> IF io.status = asynSuccess /\ ~io.short THEN ASYN_EOM_EOS ELSE NoEom,
       sent   |-> <<[kind |-> "writeRead", cmd |-> outBuf]>>]

\* variant: the reason is stored over init, not over data.eom
StoreEomOverInit(pport, eom) ==
  IF eom = NoEom THEN pport ELSE [pport EXCEPT !.init = eom]

\* *eomReason = ... with eomReason == &pport->data.eom
StoreEom(pport, eom) ==
  IF eom = NoEom THEN pport ELSE [pport EXCEPT !.data.eom = eom]

(***************************************************************************)
(* Connection setup: drvAsynKeithley6485 / drvAsynKeithley648x, as built   *)
(* where vxWorks is not defined                                            *)
(***************************************************************************)
\* a reply of the instrument's form: maker, model, serial, three revisions
IdnReplyFull == <<"K","E","I","T","H","L","E","Y",",","M","O","D","E","L","6","4","8","5",",","S","N","0","0","1",",","A","1","/","B","2","/","C","3">>

\* identification replies the device model may give
IdnReplies ==
  { <<"M","O","D","E","L","6","4","8","5",",","S","N","0","0","1",",","A","1","/","B","2","/","C","3">>,
    <<"K","E","I","T","H","L","E","Y",",","M","O","D","E","L","6","4","8","5",",","S","N","0","0","1",",","A","1","/","B","2","/","C","3">>,
    <<"K","I",",","M","6","4","8","7",",","S","2",",","A","/","B">>,
    <<"K","I",",","M","6","4","8","7",",","S","2">>,
    <<"K","E","I","T","H","L","E","Y"," ","I","N","S","T","R","U","M","E","N","T","S"," ","I","N","C",".",",","M","O","D","E","L"," ","6","4","8","7","-","A","B","C",",","1","2","3","4","5","6","7","8","9","0","1","2","3","4","5","6","7","8","9","0","1","2","3","4","5","6","7","8","9","0","1","2","3","4","5","6","7","8","9",",","A","/","B","/","C">> }

TypeArgs == {"6485", "6487", "other"}

DevTypeOf(type) ==
  IF type = "6487" THEN DEV_6487 ELSE IF type = "6485" THEN DEV_6485 ELSE DEV_ALL

\* calloc'ed Port
NewPort ==
  [devtype |-> DEV_ALL, init |-> 0,
   model |-> <<>>, serial |-> 0, dig_rev |-> 0, disp_rev |-> 0, brd_rev |-> 0,
   stats |-> [ioErrors |-> 0, writeReads |-> 0, writeOnlys |-> 0],
   data  |-> [reading |-> DecZero, timestamp |-> 0, raw |-> 0, eom |-> 0]]

\* *(p) = '\0' at index p of the buffer; a store through NULL (p = 0) is undefined
Cut(buf, p) == IF p = 0 THEN buf ELSE [buf EXCEPT ![p] = NUL]

\* p++ of a pointer that strchr returned
Bump(p) == IF p = 0 THEN 0 ELSE p + 1

\* variant: serial placed at the first comma of the reply
SerialMarkFirstComma(buf) == strchr(buf, 1, ",")

\* the two strchr calls that place serial: the second comma of the reply
SerialMark(buf) ==
  LET first == strchr(buf, 1, ",")
  IN  IF first = 0 THEN 0 ELSE strchr(buf, first + 1, ",")

\* the in-place split of the identification reply; ub: a NULL from strchr was used
ParseIdn(inpBuf) ==
  LET s    == SerialMark(inpBuf)
      b1   == Cut(inpBuf, s)
      ser  == Bump(s)
      d    == IF ser = 0 THEN 0 ELSE strchr(b1, ser, ",")
      b2   == Cut(b1, d)
      dig  == Bump(d)
      p1   == IF dig = 0 THEN 0 ELSE strchr(b2, dig, "/")
      b3   == Cut(b2, p1)
      disp == Bump(p1)
      p2   == IF disp = 0 THEN 0 ELSE strchr(b3, disp, "/")
      b4   == Cut(b3, p2)
      brd  == Bump(p2)
  IN  [ub |-> (p2 = 0), model |-> b4, serial |-> ser, dig_rev |-> dig,
       disp_rev |-> disp, brd_rev |-> brd]

\* the C string a field pointer of the port designates (NullPtr for a NULL pointer)
Field(pport, f) ==
  IF f = "model" THEN CStr(pport.model, 1)
  ELSE IF pport[f] = 0 THEN NullPtr
  ELSE CStr(pport.model, pport[f])

IdentFields == {"model", "serial", "dig_rev", "disp_rev", "brd_rev"}

(***************************************************************************)
(* Parameter handlers.  A handler yields the set of its possible results   *)
(* for one transport outcome io: a single result, or several where the     *)
(* code's behaviour is undefined (a NULL or an uninitialized value used).  *)
(***************************************************************************)
\* values an uninitialized int may hold
UninitInts == {-1, 0, 1}

\* contents an uninitialized or stray char buffer may hold
GarbageStrs == {<<>>, <<"#">>}

Res(status, p, out, sent) ==
  [status |-> status, pport |-> p, out |-> out, length |-> NoLength,
   sent |-> sent, crashed |-> FALSE]

ResLen(status, p, out, length, sent) ==
  [status |-> status, pport |-> p, out |-> out, length |-> length,
   sent |-> sent, crashed |-> FALSE]

\* the process dies inside the handler: nothing is returned
Crash(p, sent) ==
  [status |-> "crash", pport |-> p, out |-> NoValue, length |-> NoLength,
   sent |-> sent, crashed |-> TRUE]

readDummy(pport) == {Res(asynSuccess, pport, NoValue, <<>>)}

writeDummy(pport) == {Res(asynSuccess, pport, NoValue, <<>>)}

\* len = strlen(inpBuf); if (len > 39) inpBuf[39] = '\0'
Truncate39(inpBuf) ==
  IF strlen(inpBuf) > 39 THEN SubSeq(CStr(inpBuf, 1), 1, 39) ELSE CStr(inpBuf, 1)

KindDiffersNever(type, Iface) == FALSE

\* if( simpleCommandTable[which].type != Iface) return asynSuccess;
KindDiffers(type, Iface) == type # Iface

readSimpleData(drv, which, pport, Iface, io) ==
  IF KindDiffers(simpleCommandTable(drv)[which].type, Iface)
  THEN {Res(asynSuccess, pport, NoValue, <<>>)}
  ELSE LET outBuf == simpleCommandTable(drv)[which].cmd_str \o <<"?">>
           r == writeRead(pport, outBuf, BUFFER_SIZE, io)
           p == StoreEom(r.pport, r.eom)
       IN  IF r.status # asynSuccess
           THEN {Res(r.status, p, NoValue, r.sent)}
           ELSE CASE Iface = Float64 -> {Res(asynSuccess, p, <<atof(r.inpBuf)>>, r.sent)}
                  [] Iface = Int32 -> {Res(asynSuccess, p, <<atoi(r.inpBuf)>>, r.sent)}
                  [] Iface = Octet -> {Res(asynSuccess, p, <<Truncate39(r.inpBuf)>>, r.sent)}

\* writeOctet hands &data (a char **) where a char * is read: stray bytes
writeSimpleData(drv, which, pport, data, Iface, io) ==
  LET row == simpleCommandTable(drv)[which]
      Send(outBuf) ==
        LET r == writeOnly(pport, outBuf, io)
        IN  Res(r.status, r.pport, NoValue, r.sent)
  IN  IF row.type = SIMPLE_TRIGGER
      THEN {Send(row.cmd_str)}
      ELSE IF KindDiffers(row.type, Iface)
      THEN {Res(asynSuccess, pport, NoValue, <<>>)}
      ELSE CASE Iface = Float64 -> {Send(row.cmd_str \o <<" ">> \o FormatG(data))}
             [] Iface = Int32 -> {Send(row.cmd_str \o <<" ">> \o IntToStr(data))}
             [] Iface = Octet -> {Send(row.cmd_str \o <<" ">> \o g) : g \in GarbageStrs}

\* variant: a field also reads 1 when a higher bit is set
BitOrAbove(raw, n) == IF raw \div (2 ^ n) > 0 THEN 1 ELSE 0

\* the bit-field view of data.status.raw (bit 0 is the first field)
Bit(raw, n) == (raw \div (2 ^ n)) % 2

StatusBits(raw) ==
  [overflow |-> Bit(raw, 0), filter_enabled |-> Bit(raw, 1),
   math_enabled |-> Bit(raw, 2), null_enabled |-> Bit(raw, 3),
   limit_test |-> Bit(raw, 4), limit_result |-> (raw \div 32) % 4,
   overvoltage |-> Bit(raw, 7), zero_check_enabled |-> Bit(raw, 9),
   zero_correct_enabled |-> Bit(raw, 10)]

\* variant: the limit result is reported without the limit_test test
StatusLimitsUntested(raw) == StatusBits(raw).limit_result

\* case STATUS_LIMITS_CMD
StatusLimits(raw) ==
  IF StatusBits(raw).limit_test # 0 THEN StatusBits(raw).limit_result ELSE 3

\* the Int32 branch of readCache; NoValue where no case assigns *data
CacheInt32(which, data) ==
  CASE which = "TIMESTAMP_CMD" -> <<data.timestamp>>
    [] which = "STATUS_RAW_CMD" -> <<data.raw>>
    [] which = "STATUS_OVERFLOW_CMD" -> <<StatusBits(data.raw).overflow>>
    [] which = "STATUS_FILTER_CMD" -> <<StatusBits(data.raw).filter_enabled>>
    [] which = "STATUS_MATH_CMD" -> <<StatusBits(data.raw).math_enabled>>
    [] which = "STATUS_NULL_CMD" -> <<StatusBits(data.raw).null_enabled>>
    [] which = "STATUS_LIMITS_CMD" -> <<StatusLimits(data.raw)>>
    [] which = "STATUS_OVERVOLTAGE_CMD" -> <<StatusBits(data.raw).overvoltage>>
    [] which = "STATUS_ZERO_CHECK_CMD" -> <<StatusBits(data.raw).zero_check_enabled>>
    [] which = "STATUS_ZERO_CORRECT_CMD" -> <<StatusBits(data.raw).zero_correct_enabled>>
    [] OTHER -> NoValue

\* the Octet branch of readCache: char_cache, NullPtr where no case sets it
CacheOctet(which, pport) ==
  CASE which = "MODEL_CMD" -> Field(pport, "model")
    [] which = "SERIAL_CMD" -> Field(pport, "serial")
    [] which = "DIG_REV_CMD" -> Field(pport, "dig_rev")
    [] which = "DISP_REV_CMD" -> Field(pport, "disp_rev")
    [] which = "BRD_REV_CMD" -> Field(pport, "brd_rev")
    [] OTHER -> NullPtr

\* the copy of char_cache into the host buffer, with the reported length
CopyCache(s) ==
  IF Len(s) < 40 THEN [out |-> s, length |-> Len(s)]
  ELSE [out |-> SubSeq(s, 1, 39), length |-> 39]

\* strlen(NULL) is undefined: the process dies or stray bytes are copied
readCache(which, pport, Iface) ==
  CASE Iface = Octet ->
         LET char_cache == CacheOctet(which, pport)
         IN  IF char_cache = NullPtr
             THEN {Crash(pport, <<>>)} \cup
                  {ResLen(asynSuccess, pport, <<g>>, Len(g), <<>>) : g \in GarbageStrs}
             ELSE {ResLen(asynSuccess, pport, <<CopyCache(char_cache).out>>,
                          CopyCache(char_cache).length, <<>>)}
    [] Iface = Float64 -> {Res(asynSuccess, pport, NoValue, <<>>)}
    [] Iface = Int32 -> {Res(asynSuccess, pport, CacheInt32(which, pport.data), <<>>)}

\* epicsStrtok_r(str, delim, &saveptr) on buffer buf; p is str, or saveptr when
\* str is NULL; 0 is the NULL pointer
RECURSIVE SkipDelim(_, _, _)
SkipDelim(buf, p, delim) ==
  IF CharAt(buf, p) = delim THEN SkipDelim(buf, p + 1, delim) ELSE p

RECURSIVE TokenEnd(_, _, _)
TokenEnd(buf, p, delim) ==
  IF CharAt(buf, p) \in {delim, NUL} THEN p ELSE TokenEnd(buf, p + 1, delim)

epicsStrtok_r(buf, p, delim) ==
  IF p = 0 THEN [token |-> NullPtr, saveptr |-> 0]
  ELSE LET s == SkipDelim(buf, p, delim)
           e == TokenEnd(buf, s, delim)
       IN  IF CharAt(buf, s) = NUL THEN [token |-> NullPtr, saveptr |-> 0]
           ELSE [token   |-> SubSeq(buf, s, e - 1),
                 saveptr |-> IF CharAt(buf, e) = NUL THEN e ELSE e + 1]

\* the loop of readSensorReading: its exit test compares the array token,
\* never NULL, so all three passes run and pass ends at 3
SensorTokens(inpBuf) ==
  LET t1 == epicsStrtok_r(inpBuf, 1, ",")
      t2 == epicsStrtok_r(inpBuf, t1.saveptr, ",")
      t3 == epicsStrtok_r(inpBuf, t2.saveptr, ",")
  IN  [token |-> <<t1.token, t2.token, t3.token>>, pass |-> 3]

\* atof(token): of a NULL token undefined, the process dies or a stray number is read
DecCrash == [crash |-> TRUE]

AtofToken(t) == IF t = NullPtr THEN {DecCrash, DecZero} ELSE {atof(t)}

\* variant: only the reading is stored
SensorStoreReadingOnly(p, a, b, c) == [p EXCEPT !.data.reading = a]

\* pport->data.reading, .timestamp, .status.raw = the three tokens read
SensorStore(p, a, b, c) ==
  [p EXCEPT !.data.reading = a,
            !.data.timestamp = DecToInt(b),
            !.data.raw = DecToInt(c)]

readSensorReading(pport, Iface, io) ==
  LET r == writeRead(pport, CmdREAD, BUFFER_SIZE, io)
      p == StoreEom(r.pport, r.eom)
      tk == SensorTokens(r.inpBuf)
  IN  IF r.status # asynSuccess THEN {Res(r.status, p, NoValue, r.sent)}
      ELSE IF tk.pass # 3 THEN {Res(asynError, p, NoValue, r.sent)}
      ELSE { IF DecCrash \in {a, b, c} \/ (Iface = Octet /\ tk.token[1] = NullPtr)
             THEN Crash(p, r.sent)
             ELSE LET q == SensorStore(p, a, b, c)
                  IN  CASE Iface = Octet ->
                             ResLen(asynSuccess, q, <<tk.token[1]>>, Len(tk.token[1]), r.sent)
                        [] Iface = Float64 -> Res(asynSuccess, q, <<q.data.reading>>, r.sent)
                        [] Iface = Int32 -> Res(asynSuccess, q, NoValue, r.sent)
             : a \in AtofToken(tk.token[1]), b \in AtofToken(tk.token[2]),
               c \in AtofToken(tk.token[3]) }

\* the query readRange sends for which; NullPtr for the default branch
RangeQuery(which) ==
  CASE which = "RANGE_CMD" -> CmdRANGE \o <<"?">>
    [] which = "RANGE_AUTO_ULIMIT_CMD" -> CmdULIM \o <<"?">>
    [] which = "RANGE_AUTO_LLIMIT_CMD" -> CmdLLIM \o <<"?">>
    [] OTHER -> NullPtr

\* variant: the exponent offset is 8
RangeDecodeOffByOne(inpBuf) ==
  LET p == strchr(inpBuf, 1, "E")
  IN  IF p = 0 THEN [status |-> asynError, value |-> NoValue]
      ELSE [status |-> asynSuccess, value |-> <<8 + atoi(CStr(inpBuf, p + 1))>>]

\* the Int32 branch of readRange: p = strchr(inpBuf, 'E'); 9 + atoi(p + 1)
RangeDecode(inpBuf) ==
  LET p == strchr(inpBuf, 1, "E")
  IN  IF p = 0 THEN [status |-> asynError, value |-> NoValue]
      ELSE [status |-> asynSuccess, value |-> <<9 + atoi(CStr(inpBuf, p + 1))>>]

readRange(which, pport, Iface, io) ==
  IF Iface = Octet THEN {Res(asynSuccess, pport, NoValue, <<>>)}
  ELSE IF RangeQuery(which) = NullPtr THEN {Res(asynError, pport, NoValue, <<>>)}
  ELSE LET r == writeRead(pport, RangeQuery(which), BUFFER_SIZE, io)
           p == StoreEom(r.pport, r.eom)
       IN  IF r.status # asynSuccess THEN {Res(r.status, p, NoValue, r.sent)}
           ELSE IF Iface = Float64
           THEN IF atof(r.inpBuf) = DecZero
                THEN {Res(asynError, p, NoValue, r.sent)}
                ELSE {Res(asynSuccess, p, <<atof(r.inpBuf)>>, r.sent)}
           ELSE {Res(RangeDecode(r.inpBuf).status, p, RangeDecode(r.inpBuf).value, r.sent)}

\* variant: the upper limit is tested against 8
RangeValueRejectedLate(value) == (value < 0) \/ (value > 8)

\* (value < 0) || (value > 7)
RangeValueRejected(value) == (value < 0) \/ (value > 7)

\* sprintf(outBuf, "<verb> 2.0e%d", -9 + value)
RangeNumber(value) == <<"2", ".", "0", "e">> \o IntToStr(-9 + value)

RangeCommand(which, value) ==
  CASE which = "RANGE_CMD" -> CmdRANGE \o <<" ">> \o RangeNumber(value)
    [] which = "RANGE_AUTO_ULIMIT_CMD" -> CmdULIM \o <<" ">> \o RangeNumber(value)
    [] which = "RANGE_AUTO_LLIMIT_CMD" -> CmdLLIM \o <<" ">> \o RangeNumber(value)
    [] OTHER -> NullPtr

writeRange(which, pport, data, Iface, io) ==
  IF Iface # Int32 THEN {Res(asynSuccess, pport, NoValue, <<>>)}
  ELSE IF RangeValueRejected(data) THEN {Res(asynError, pport, NoValue, <<>>)}
  ELSE IF RangeCommand(which, data) = NullPtr THEN {Res(asynError, pport, NoValue, <<>>)}
  ELSE LET r == writeOnly(pport, RangeCommand(which, data), io)
       IN  {Res(r.status, r.pport, NoValue, r.sent)}

ReadKindSkippedNever(Iface) == FALSE

\* readRate, readCommon: if( Iface != Int32) return asynSuccess;
ReadKindSkipped(Iface) == Iface # Int32

\* the classification of readRate.  The 6485 file tests the uninitialized
\* int rate, not val, in its second comparison: either branch may be taken.
RateOf(drv, val) ==
  IF DecGT(val, Dec(1, 0)) THEN {0}
  ELSE IF drv = "648x"
  THEN (IF DecGT(val, Dec(1, -1)) THEN {1} ELSE {2})
  ELSE {IF DecGT(Dec(rate, 0), Dec(1, -1)) THEN 1 ELSE 2 : rate \in UninitInts}

readRate(drv, pport, Iface, io) ==
  IF ReadKindSkipped(Iface) THEN {Res(asynSuccess, pport, NoValue, <<>>)}
  ELSE LET r == writeRead(pport, CmdNPLCQuery, BUFFER_SIZE, io)
           p == StoreEom(r.pport, r.eom)
       IN  IF r.status # asynSuccess THEN {Res(r.status, p, NoValue, r.sent)}
           ELSE {Res(asynSuccess, p, <<rate>>, r.sent) : rate \in RateOf(drv, atof(r.inpBuf))}

\* variant: every rate is sent as the default of the switch
RateNPLCDefaultOnly(rate) == Dec(1, 0)

\* the NPLC value of a rate
RateNPLC(rate) ==
  CASE rate = 0 -> Dec(6, 0)
    [] rate = 1 -> Dec(1, 0)
    [] rate = 2 -> Dec(1, -1)
    [] OTHER -> Dec(1, 0)

writeRate(pport, data, Iface, io) ==
  IF Iface # Int32 THEN {Res(asynSuccess, pport, NoValue, <<>>)}
  ELSE IF (data < 0) \/ (data > 2) THEN {Res(asynError, pport, NoValue, <<>>)}
  ELSE LET r == writeOnly(pport, CmdNPLC \o FormatG(RateNPLC(data)), io)
       IN  {Res(r.status, r.pport, NoValue, r.sent)}

\* variant: only the first three characters of the reply are compared
TconDecodeByPrefix(inpBuf) ==
  IF Len(inpBuf) >= 3 /\ SubSeq(inpBuf, 1, 3) = <<"M", "O", "V">> THEN <<0>>
  ELSE IF Len(inpBuf) >= 3 /\ SubSeq(inpBuf, 1, 3) = <<"R", "E", "P">> THEN <<1>>
  ELSE NoValue

\* !strcmp("MOV", inpBuf) -> 0, !strcmp("REP", inpBuf) -> 1, else no value
TconDecode(inpBuf) ==
  IF inpBuf = <<"M", "O", "V">> THEN <<0>>
  ELSE IF inpBuf = <<"R", "E", "P">> THEN <<1>>
  ELSE NoValue

\* for VOLT_RANGE no case assigns val: an uninitialized int is returned
readCommon(which, pport, Iface, io) ==
  IF ReadKindSkipped(Iface) THEN {Res(asynSuccess, pport, NoValue, <<>>)}
  ELSE IF which = "DIGITAL_FILTER_CONTROL_CMD"
  THEN LET r == writeRead(pport, CmdTCONQuery, BUFFER_SIZE, io)
           p == StoreEom(r.pport, r.eom)
       IN  IF r.status # asynSuccess THEN {Res(r.status, p, NoValue, r.sent)}
           ELSE IF TconDecode(r.inpBuf) # NoValue
           THEN {Res(asynSuccess, p, TconDecode(r.inpBuf), r.sent)}
           ELSE {Res(asynError, p, NoValue, r.sent)}
  ELSE {Res(asynSuccess, pport, <<val>>, <<>>) : val \in UninitInts}

\* for VOLT_RANGE no case fills outBuf: an uninitialized buffer is sent
writeCommon(which, pport, data, Iface, io) ==
  LET Send(outBuf) ==
        LET r == writeOnly(pport, outBuf, io)
        IN  Res(r.status, r.pport, NoValue, r.sent)
  IN  IF Iface # Int32 THEN {Res(asynSuccess, pport, NoValue, <<>>)}
      ELSE IF which = "DIGITAL_FILTER_CONTROL_CMD"
      THEN IF data = 0 THEN {Send(CmdTCONMOV)}
           ELSE IF data = 1 THEN {Send(CmdTCONREP)}
           ELSE {Res(asynError, pport, NoValue, <<>>)}
      ELSE {Send(g) : g \in GarbageStrs}

\* genCommandTable[id].readFunc / writeFunc
GenRead(drv, id, pport, Iface, io) ==
  LET f == genCommandTable(drv)[id].readFunc
  IN  CASE f = "readDummy" -> readDummy(pport)
        [] f = "readSensorReading" -> readSensorReading(pport, Iface, io)
        [] f = "readRange" -> readRange(id, pport, Iface, io)
        [] f = "readRate" -> readRate(drv, pport, Iface, io)
        [] f = "readCommon" -> readCommon(id, pport, Iface, io)

GenWrite(drv, id, pport, data, Iface, io) ==
  LET f == genCommandTable(drv)[id].writeFunc
  IN  CASE f = "writeDummy" -> writeDummy(pport)
        [] f = "writeRange" -> writeRange(id, pport, data, Iface, io)
        [] f = "writeRate" -> writeRate(pport, data, Iface, io)
        [] f = "writeCommon" -> writeCommon(id, pport, data, Iface, io)

\* variant: the entry points do not test init
NotInitializedIgnored(pport) == FALSE

\* if( pport->init == 0) return asynError;
NotInitialized(pport) == pport.init = 0

\* readOctet / readInt32 / readFloat64 with pasynUser->reason = which
ReadEntry(drv, which, pport, Iface, io) ==
  LET row == commandTable(drv)[which]
  IN  IF NotInitialized(pport) THEN {Res(asynError, pport, NoValue, <<>>)}
      ELSE CASE row.type = CMD_GEN -> GenRead(drv, row.id, pport, Iface, io)
             [] row.type = CMD_SIMPLE -> readSimpleData(drv, row.id, pport, Iface, io)
             [] row.type = CMD_CACHE -> readCache(row.id, pport, Iface)

\* variant: a write that no case of the switch takes is refused
WriteNoCaseRefused(pport) == {Res(asynError, pport, NoValue, <<>>)}

\* the return asynSuccess after the switch of the write entry points
WriteNoCase(pport) == {Res(asynSuccess, pport, NoValue, <<>>)}

\* writeOctet / writeInt32 / writeFloat64 with pasynUser->reason = which
WriteEntry(drv, which, pport, data, Iface, io) ==
  LET row == commandTable(drv)[which]
  IN  IF NotInitialized(pport) THEN {Res(asynError, pport, NoValue, <<>>)}
      ELSE CASE row.type = CMD_GEN -> GenWrite(drv, row.id, pport, data, Iface, io)
             [] row.type = CMD_SIMPLE -> writeSimpleData(drv, row.id, pport, data, Iface, io)
             [] OTHER -> WriteNoCase(pport)

\* the loop of create: the first row from i on whose tag matches drvInfo,
\* COMMAND_NUMBER + 1 (the C index COMMAND_NUMBER) when none does
RECURSIVE FindTag(_, _, _)
FindTag(drv, drvInfo, i) ==
  IF i > COMMAND_NUMBER(drv) THEN i
  ELSE IF epicsStrCaseCmp(drvInfo, commandTable(drv)[i].tag) = 0 THEN i
  ELSE FindTag(drv, drvInfo, i + 1)

ErrDifferentDevice == "failed as tag is for different device"
ErrNoTag == "failed to find tag"
NoErrlog == ""

\* create: status returned, pasynUser->reason (a C index, from 0) and the
\* line printed with errlogPrintf
CreateResult(status, reason, errlog) ==
  [status |-> status, reason |-> reason, errlog |-> errlog]

\* variant: a failed create leaves the loop index in pasynUser->reason
ReasonOnFailureLoopIndex(i) == i - 1

\* pasynUser->reason = 0; before each return asynError of create
ReasonOnFailure(i) == 0

create(drv, pport, drvInfo) ==
  LET i == FindTag(drv, drvInfo, 1)
  IN  IF i > COMMAND_NUMBER(drv)
      THEN CreateResult(asynError, ReasonOnFailure(i), ErrNoTag)
      ELSE IF /\ drv = "648x"
              /\ commandTable(drv)[i].dev # DEV_ALL
              /\ commandTable(drv)[i].dev # pport.devtype
      THEN CreateResult(asynError, ReasonOnFailure(i), ErrDifferentDevice)
      ELSE CreateResult(asynSuccess, i - 1, NoErrlog)

(***************************************************************************)
(* The host and the device: what is written, and what the device replies   *)
(***************************************************************************)
\* table rows the host can hold a handle (pasynUser->reason) of: create
\* refuses a row of another device type
Handles(drv, devtype) ==
  {i \in 1..COMMAND_NUMBER(drv) :
     commandTable(drv)[i].dev = DEV_ALL \/ commandTable(drv)[i].dev = devtype}

RangeIds == {"RANGE_CMD", "RANGE_AUTO_ULIMIT_CMD", "RANGE_AUTO_LLIMIT_CMD"}

\* values the host writes
WriteValues(id, Iface) ==
  IF Iface = Octet THEN {<<"1">>}
  ELSE IF Iface = Float64 THEN {Dec(15, -1)}
  ELSE IF id \in RangeIds THEN -1..8
  ELSE IF id = "RATE_CMD" THEN -1..3
  ELSE IF id = "DIGITAL_FILTER_CONTROL_CMD" THEN -1..2
  ELSE {0, 1}

\* the numeric text of a range: as the write sends it, and as the device prints it
RangeUpper(v) == <<"2", ".", "0", "E">> \o IntToStr(v - 9)

RangeDevice(v) ==
  <<"2", ".", "1", "0", "0", "0", "0", "0", "E", "-", "0">> \o IntToStr(9 - v)

SensorReplies ==
  { <<"1",".","2","3","4","E","-","6",",","1","2","3","4","5",",","9","6">>,
    <<"a","b","c",",","d","e","f">>,
    <<"a","b","c",",","1",",","2">>,
    <<"2",".","5","E","-","3",",","7",",","4","8">>,
    <<"-","3","E","-","9",",","2","0",",","8","0">>,
    <<"0","0","0","0","0","0","0","0","0","0","0","0","0","0","0","0","0","0","0","0","0","0","0","0","0","0","0","0","0","0","0","0","0","0","0","0","0","1",".","5",",","1",",","2">> }

RangeReplies ==
  {RangeNumber(v) : v \in 0..7} \cup {RangeUpper(v) : v \in 0..7}
    \cup {RangeDevice(v) : v \in 0..7}
    \cup {<<"a","b","c">>, <<"0">>, <<"2",".","0","E","+","3">>}

RateReplies ==
  { <<"6">>, <<"1">>, <<"0",".","1">>, <<"6",".","0","0","E","+","0","0">>, <<"5",".","0","E","-","0","1">>, <<"1",".","0","0","E","-","0","2">>, <<"x","y","z">> }

TconReplies == { <<"M","O","V">>, <<"R","E","P">>, <<"M","O","V","E">>, <<>> }

SimpleReplies == { <<"1">>, <<"0">>, <<"1","2">>, <<"a","b","c">> }

\* what the device may answer to a query of parameter id
Replies(id) ==
  IF id = "READ_CMD" THEN SensorReplies
  ELSE IF id \in RangeIds THEN RangeReplies
  ELSE IF id = "RATE_CMD" THEN RateReplies
  ELSE IF id = "DIGITAL_FILTER_CONTROL_CMD" THEN TconReplies
  ELSE SimpleReplies

\* names the host asks create for: every tag of the larger table as it
\* stands, in lower case and in mixed case, and names of no row
RECURSIVE MapCase(_, _, _)
MapCase(s, i, mixed) ==
  IF i > Len(s) THEN <<>>
  ELSE LET up == \E j \in 1..26 : UpperCase[j] = s[i]
           c == IF up /\ (~mixed \/ i % 2 = 0)
                THEN LowerCase[CHOOSE j \in 1..26 : UpperCase[j] = s[i]]
                ELSE s[i]
       IN  <<c>> \o MapCase(s, i + 1, mixed)

LowerOf(s) == MapCase(s, 1, FALSE)
MixedOf(s) == MapCase(s, 1, TRUE)

Tags(drv) == {commandTable(drv)[i].tag : i \in 1..COMMAND_NUMBER(drv)}

UnknownNames ==
  { <<"N","O","P","E">>, <<"R","A","N","G">>, <<"R","A","N","G","E","S">>,
    <<"R","A","N","G","E"," ">>, <<>> }

DrvInfos ==
  Tags("648x") \cup {LowerOf(t) : t \in Tags("648x")}
    \cup {MixedOf(t) : t \in Tags("648x")} \cup UnknownNames

VARIABLES
  driver,     \* which source file is running: "6485" or "648x"
  typeArg,    \* the type argument of drvAsynKeithley648x
  pc,         \* position of the setup function
  registered, \* registerPort has succeeded: the port exists for the host
  advertised, \* the standard interfaces are initialized: the host can call in
  setupLog,   \* the setup steps run so far, in order, each with its outcome
  setupWire,  \* the commands setup has handed to the transport, in order
  idnReply,   \* the reply the *IDN? exchange received (NullPtr before)
  pport,      \* the Port structure
  crashed,    \* undefined behaviour has ended the process
  acc,        \* the last host access: request, pre-state, outcome
  hostExchanges, \* exchanges started by host accesses
  lastSensor, \* history: the reply of the latest sensor read that returned success
  failedHandle \* history: pasynUser->reason as the latest failed create left it

vars == <<driver, typeArg, pc, registered, advertised, setupLog,
          setupWire, idnReply, pport, crashed, acc, hostExchanges,
          lastSensor, failedHandle>>

NoAcc == [op |-> "none"]

Init ==
  /\ driver \in Drivers
  /\ typeArg \in (IF driver = "648x" THEN TypeArgs ELSE {"6485"})
  /\ pc = "start"
  /\ registered = FALSE
  /\ advertised = FALSE
  /\ setupLog = <<>>
  /\ setupWire = <<>>
  /\ idnReply = NullPtr
  /\ pport = NewPort
  /\ crashed = FALSE
  /\ acc = NoAcc
  /\ hostExchanges = 0
  /\ lastSensor = NullPtr
  /\ failedHandle = NoValue

Log(step, ok) == Append(setupLog, [step |-> step, ok |-> ok])

\* the device type test (648x only) and pasynOctetSyncIO->connect
SetupConnect ==
  /\ pc = "start" /\ ~crashed
  /\ LET dt == IF driver = "648x" THEN DevTypeOf(typeArg) ELSE DEV_ALL
     IN  /\ pport' = [pport EXCEPT !.devtype = dt]
         /\ IF driver = "648x" /\ dt = DEV_ALL
            THEN /\ pc' = "failed"
                 /\ setupLog' = Log("type", FALSE)
            ELSE \E ok \in BOOLEAN :
                   /\ pc' = IF ok THEN "bound" ELSE "failed"
                   /\ setupLog' = Log("connect", ok)
  /\ UNCHANGED <<driver, typeArg, registered, advertised, setupWire,
                 idnReply, crashed, acc, hostExchanges, lastSensor,
                 failedHandle>>

\* pasynManager->registerPort
SetupRegisterPort ==
  /\ pc = "bound" /\ ~crashed
  /\ \E ok \in BOOLEAN :
       /\ pc' = IF ok THEN "registered" ELSE "failed"
       /\ registered' = ok
       /\ setupLog' = Log("registerPort", ok)
  /\ UNCHANGED <<driver, typeArg, advertised, setupWire, idnReply,
                 pport, crashed, acc, hostExchanges, lastSensor,
                 failedHandle>>

\* pasynStandardInterfacesBase->initialize
SetupInterfaces ==
  /\ pc = "registered" /\ ~crashed
  /\ \E ok \in BOOLEAN :
       /\ pc' = IF ok THEN "advertised" ELSE "failed"
       /\ advertised' = ok
       /\ setupLog' = Log("initialize", ok)
  /\ UNCHANGED <<driver, typeArg, registered, setupWire, idnReply,
                 pport, crashed, acc, hostExchanges, lastSensor,
                 failedHandle>>

\* writeOnly(pport, "*CLS")
SetupClearStatus ==
  /\ pc = "advertised" /\ ~crashed
  /\ \E io \in IoOutcomes({<<>>}) :
       LET r == writeOnly(pport, CmdCLS, io)
       IN  /\ pport' = r.pport
           /\ setupWire' = setupWire \o r.sent
           /\ pc' = IF r.status = asynSuccess THEN "cleared" ELSE "failed"
           /\ setupLog' = Log("CLS", r.status = asynSuccess)
  /\ UNCHANGED <<driver, typeArg, registered, advertised, idnReply,
                 crashed, acc, hostExchanges, lastSensor,
                 failedHandle>>

\* what the port holds when the split ran to its end: init = 1, last reading zeroed
Identified(p, parsed) ==
  [p EXCEPT !.model = parsed.model, !.serial = parsed.serial,
            !.dig_rev = parsed.dig_rev, !.disp_rev = parsed.disp_rev,
            !.brd_rev = parsed.brd_rev, !.init = 1,
            !.data.reading = DecZero, !.data.timestamp = 0, !.data.raw = 0]

\* writeRead(pport, "*IDN?", ...), the split of the reply, init = 1.
\* A reply without the delimiters makes the split store through NULL:
\* the process dies, or the store goes unnoticed and setup runs on.
SetupIdentify ==
  /\ pc = "cleared" /\ ~crashed
  /\ \E io \in IoOutcomes(IdnReplies) :
       LET r      == writeRead(pport, CmdIDN, BUFFER_SIZE, io)
           parsed == ParseIdn(r.inpBuf)
       IN  /\ setupWire' = setupWire \o r.sent
           /\ IF r.status # asynSuccess
              THEN /\ pport' = r.pport
                   /\ pc' = "failed"
                   /\ setupLog' = Log("IDN", FALSE)
                   /\ UNCHANGED <<idnReply, crashed>>
              ELSE /\ idnReply' = r.inpBuf
                   /\ setupLog' = Log("IDN", TRUE)
                   /\ IF parsed.ub
                      THEN \/ /\ crashed' = TRUE
                              /\ pc' = "crashed"
                              /\ pport' = r.pport
                           \/ /\ crashed' = FALSE
                              /\ pc' = "done"
                              /\ pport' = Identified(r.pport, parsed)
                      ELSE /\ crashed' = FALSE
                           /\ pc' = "done"
                           /\ pport' = Identified(r.pport, parsed)
  /\ UNCHANGED <<driver, typeArg, registered, advertised, acc,
                 hostExchanges, lastSensor,
                 failedHandle>>

Setup ==
  \/ SetupConnect
  \/ SetupRegisterPort
  \/ SetupInterfaces
  \/ SetupClearStatus
  \/ SetupIdentify

\* the host may call in once setup has returned and the interfaces exist;
\* it has one access in flight at a time
HostMayCall == pc \in {"done", "failed"} /\ advertised /\ ~crashed /\ acc = NoAcc

\* the record of an access and the state it leaves
Access(op, which, Iface, value, io, r) ==
  /\ Len(r.sent) > 0 => hostExchanges < MaxHostExchanges
  /\ hostExchanges' = hostExchanges + Len(r.sent)
  /\ pport' = r.pport
  /\ crashed' = r.crashed
  /\ acc' = [op |-> op, which |-> which, id |-> commandTable(driver)[which].id,
             Iface |-> Iface, value |-> value,
             io |-> IF Len(r.sent) > 0 THEN io ELSE NoIo,
             pre |-> pport, status |-> r.status, out |-> r.out,
             length |-> r.length, sent |-> r.sent]
  /\ lastSensor' = IF /\ op = "read"
                        /\ commandTable(driver)[which].id = "READ_CMD"
                        /\ r.status = asynSuccess
                     THEN io.reply ELSE lastSensor
  /\ UNCHANGED <<driver, typeArg, pc, registered, advertised,
                 setupLog, setupWire, idnReply, failedHandle>>

HostRead ==
  /\ HostMayCall
  /\ \E which \in Handles(driver, pport.devtype), Iface \in Type :
       \E io \in IoOutcomes(Replies(commandTable(driver)[which].id)) :
         \E r \in ReadEntry(driver, which, pport, Iface, io) :
           Access("read", which, Iface, NoValue, io, r)

HostWrite ==
  /\ HostMayCall
  /\ \E which \in Handles(driver, pport.devtype), Iface \in Type :
       \E value \in WriteValues(commandTable(driver)[which].id, Iface),
          io \in IoOutcomes({<<>>}) :
         \E r \in WriteEntry(driver, which, pport, value, Iface, io) :
           Access("write", which, Iface, <<value>>, io, r)

\* the host binds a name to a handle (asynDrvUser create); device support
\* does so when its records are initialised, before any of them processes
HostCreate ==
  /\ HostMayCall
  /\ hostExchanges = 0
  /\ \E drvInfo \in DrvInfos :
       LET r == create(driver, pport, drvInfo)
       IN  /\ acc' = [op |-> "create", drvInfo |-> drvInfo, pre |-> pport,
                      status |-> r.status, reason |-> r.reason,
                      errlog |-> r.errlog]
           /\ failedHandle' = IF r.status # asynSuccess THEN <<r.reason>>
                               ELSE failedHandle
  /\ UNCHANGED <<driver, typeArg, pc, registered, advertised, setupLog,
                 setupWire, idnReply, pport, crashed, hostExchanges, lastSensor>>

\* the host takes the outcome of its access; it may then start the next one
HostDone ==
  /\ acc # NoAcc /\ ~crashed
  /\ acc' = NoAcc
  /\ UNCHANGED <<driver, typeArg, pc, registered, advertised, setupLog,
                 setupWire, idnReply, pport, crashed, hostExchanges, lastSensor,
                 failedHandle>>

Next == Setup \/ HostCreate \/ HostRead \/ HostWrite \/ HostDone

Spec == Init /\ [][Next]_vars

(***************************************************************************)
(* The cached reads over every status word.  The port is taken after a     *)
(* setup that succeeded and one successful sensor read whose reply carried *)
(* the status word raw; the host then reads the cached parameters as       *)
(* integers.                                                               *)
(***************************************************************************)
MaxRaw == 2047

\* the port as a setup without failure leaves it
PortAfterSetup(drv, type, reply) ==
  LET dt == IF drv = "648x" THEN DevTypeOf(type) ELSE DEV_ALL
      c  == writeOnly([NewPort EXCEPT !.devtype = dt], CmdCLS, IoOk(<<>>))
      i  == writeRead(c.pport, CmdIDN, BUFFER_SIZE, IoOk(reply))
  IN  Identified(i.pport, ParseIdn(i.inpBuf))

\* a sensor reply with status word raw
StatusReply(raw) ==
  <<"1",".","2","3","4","E","-","6",",","1","2","3","4","5",",">> \o NatToStr(raw)

InitStatus ==
  /\ driver \in Drivers
  /\ typeArg \in (IF driver = "648x" THEN {"6485", "6487"} ELSE {"6485"})
  /\ pc = "done"
  /\ registered = TRUE
  /\ advertised = TRUE
  /\ setupLog = <<[step |-> "connect", ok |-> TRUE],
                  [step |-> "registerPort", ok |-> TRUE],
                  [step |-> "initialize", ok |-> TRUE],
                  [step |-> "CLS", ok |-> TRUE],
                  [step |-> "IDN", ok |-> TRUE]>>
  /\ setupWire = <<[kind |-> "write", cmd |-> CmdCLS],
                   [kind |-> "writeRead", cmd |-> CmdIDN]>>
  /\ idnReply = IdnReplyFull
  /\ \E raw \in 0..MaxRaw :
       \E r \in readSensorReading(PortAfterSetup(driver, typeArg, IdnReplyFull),
                                  Int32, IoOk(StatusReply(raw))) :
         pport = r.pport /\ lastSensor = StatusReply(raw)
  /\ crashed = FALSE
  /\ acc = NoAcc
  /\ hostExchanges = 1
  /\ failedHandle = NoValue

CacheHandles(drv) ==
  {i \in 1..COMMAND_NUMBER(drv) : commandTable(drv)[i].type = CMD_CACHE}

\* readInt32 of a cached parameter
HostReadCache ==
  /\ HostMayCall
  /\ \E which \in CacheHandles(driver) :
       \E r \in ReadEntry(driver, which, pport, Int32, NoIo) :
         Access("read", which, Int32, NoValue, NoIo, r)

NextStatus == HostReadCache \/ HostDone

SpecStatus == InitStatus /\ [][NextStatus]_vars

(***************************************************************************)
(* Vocabulary of the properties                                            *)
(***************************************************************************)
\* last_reading of a port: reading, timestamp, raw status
LastReading(p) == <<p.data.reading, p.data.timestamp, p.data.raw>>

\* the access in acc started a transport exchange
Exchanged == acc.op \in {"read", "write"} /\ Len(acc.sent) > 0

\* ... and the transport carried it out: a reply came back
ExchangeOk == Exchanged /\ acc.io.status = asynSuccess /\ ~acc.io.short

\* ... or it failed: reported error, timeout or short write
ExchangeFailed == Exchanged /\ ~(acc.io.status = asynSuccess /\ ~acc.io.short)

\* the comma-separated fields of a reply text
RECURSIVE SplitAt(_, _, _)
SplitAt(s, c, cur) ==
  IF s = <<>> THEN <<cur>>
  ELSE IF Head(s) = c THEN <<cur>> \o SplitAt(Tail(s), c, <<>>)
  ELSE SplitAt(Tail(s), c, Append(cur, Head(s)))

Fields(s) == SplitAt(s, ",", <<>>)

NumberChars == {"0","1","2","3","4","5","6","7","8","9","+","-",".","E","e"}

\* a field that reads as a number
IsNumeric(f) ==
  /\ f # <<>>
  /\ \A i \in 1..Len(f) : f[i] \in NumberChars
  /\ IsDigit(f[1]) \/ (Len(f) > 1 /\ f[1] \in {"+", "-", "."} /\ IsDigit(f[2]))

\* a sensor reply of the documented shape: reading,timestamp,status
WellFormedSensorReply(s) ==
  Len(Fields(s)) = 3 /\ \A i \in 1..3 : IsNumeric(Fields(s)[i])

\* the text after the first blank of a command: its argument
AfterSpace(cmd) ==
  LET i == CHOOSE j \in 1..Len(cmd) : cmd[j] = " " /\ \A k \in 1..(j - 1) : cmd[k] # " "
  IN  SubSeq(cmd, i + 1, Len(cmd))

\* a text with its exponent marker in upper case
UpperE(s) == [i \in 1..Len(s) |-> IF s[i] = "e" THEN "E" ELSE s[i]]

\* setup has returned (or the process has died in it)
SetupOver == pc \in {"done", "failed", "crashed"}

(***************************************************************************)
(* C1  A sensor read (READ, any kind) whose reply is not three numeric     *)
(* comma-separated fields returns an error and leaves last_reading as it   *)
(* was before the access.                                                  *)
(* The code does not do this: its field-count test never fires and atof    *)
(* accepts any text.                                                       *)
(***************************************************************************)
\* C1: a malformed sensor reply gives an error and leaves last_reading unchanged
C1_MalformedReplyRejected ==
  (/\ acc.op = "read" /\ acc.id = "READ_CMD"
   /\ ExchangeOk
   /\ ~WellFormedSensorReply(acc.io.reply))
  => (/\ acc.status = asynError
      /\ ~crashed
      /\ LastReading(pport) = LastReading(acc.pre))

(***************************************************************************)
(* C2  Every host access whose transport exchange fails (reported error,   *)
(* timeout, short write) adds exactly 1 to io_errors, makes one exchange   *)
(* only, returns the failure to the host and leaves last_reading alone.    *)
(***************************************************************************)
\* C2: a failed exchange counts one io error, is not retried, is returned, keeps last_reading
C2_FailedExchangeCountedOnce ==
  ExchangeFailed
  => (/\ Len(acc.sent) = 1
      /\ pport.stats.ioErrors = acc.pre.stats.ioErrors + 1
      /\ pport.stats.writeReads = acc.pre.stats.writeReads
      /\ pport.stats.writeOnlys = acc.pre.stats.writeOnlys
      /\ acc.status = (IF acc.io.short THEN asynError ELSE acc.io.status)
      /\ ~crashed
      /\ LastReading(pport) = LastReading(acc.pre))

\* a failed exchange after a sensor read has stored a reading
C2_Witness == ExchangeFailed /\ acc.pre.data.raw # 0

(***************************************************************************)
(* C3  While ready (init) is false every read and write entry point, of    *)
(* each kind and parameter, returns an error, starts no exchange and       *)
(* changes nothing in the port.                                            *)
(***************************************************************************)
\* C3: while init is 0 every entry point returns an error and touches nothing
C3_NotReadyRefuses ==
  (acc.op \in {"read", "write"} /\ acc.pre.init = 0)
  => (/\ acc.status = asynError
      /\ acc.sent = <<>>
      /\ acc.out = NoValue
      /\ pport = acc.pre
      /\ ~crashed)

\* an access on a port whose setup failed after the interfaces were advertised
C3_Witness == acc.op \in {"read", "write"} /\ acc.pre.init = 0 /\ pc = "failed"

(***************************************************************************)
(* C4  Setup runs bind transport, register port, advertise interfaces,     *)
(* *CLS, *IDN? and parse, mark ready in this order: no exchange before the *)
(* port is registered and advertised, *CLS before *IDN?, the first failing *)
(* step ends setup, and ready only if every earlier step succeeded.        *)
(* The order holds (C4_OrderHolds) but the last part does not: a reply     *)
(* that does not parse can still end in ready (see C6).                    *)
(***************************************************************************)
SetupOrder == <<"connect", "registerPort", "initialize", "CLS", "IDN">>

SetupWireOrder ==
  <<[kind |-> "write", cmd |-> CmdCLS], [kind |-> "writeRead", cmd |-> CmdIDN]>>

C4_OrderHolds ==
  /\ Len(setupLog) <= 5
  /\ \A i \in 1..Len(setupLog) :
       /\ setupLog[i].step = SetupOrder[i] \/ (i = 1 /\ setupLog[i].step = "type")
       /\ i < Len(setupLog) => setupLog[i].ok
  /\ Len(setupWire) <= 2
  /\ setupWire = SubSeq(SetupWireOrder, 1, Len(setupWire))
  /\ setupWire # <<>> => (registered /\ advertised /\ Len(setupLog) >= 4)
  /\ pc = "failed" => (setupLog # <<>> /\ ~setupLog[Len(setupLog)].ok)

\* C4: setup steps run in the fixed order and ready implies every step succeeded
C4_SetupOrderAndReady ==
  /\ C4_OrderHolds
  /\ pport.init = 1
       => (/\ Len(setupLog) = 5
           /\ \A i \in 1..5 : setupLog[i].ok
           /\ ~ParseIdn(idnReply).ub)

(***************************************************************************)
(* C5  As stated: the reply "MODEL6485,SN001,A1/B2/C3" (one comma, two     *)
(* slashes) is split into model, serial, digRev, dispRev, brdRev and setup *)
(* ends ready.                                                             *)
(***************************************************************************)
IdnOneComma == <<"M","O","D","E","L","6","4","8","5",",","S","N","0","0","1",",","A","1","/","B","2","/","C","3">>

\* C5 as stated: the one-comma reply is split into the five fields and setup ends ready
C5_Original ==
  (SetupOver /\ idnReply = IdnOneComma)
  => (/\ pc = "done" /\ pport.init = 1
      /\ Field(pport, "model") = <<"M","O","D","E","L","6","4","8","5">>
      /\ Field(pport, "serial") = <<"S","N","0","0","1">>
      /\ Field(pport, "dig_rev") = <<"A","1">>
      /\ Field(pport, "disp_rev") = <<"B","2">>
      /\ Field(pport, "brd_rev") = <<"C","3">>)

(***************************************************************************)
(* C5 amended  The reply has the form Maker,Model,Serial,dig/disp/brd      *)
(* (three commas, then two slashes): "KEITHLEY,MODEL6485,SN001,A1/B2/C3"   *)
(* gives model = "KEITHLEY,MODEL6485" (the text before the second comma),  *)
(* serial = "SN001", digRev = "A1", dispRev = "B2", brdRev = "C3", and     *)
(* setup ends ready.                                                       *)
(***************************************************************************)
IdnThreeCommas == <<"K","E","I","T","H","L","E","Y",",","M","O","D","E","L","6","4","8","5",",","S","N","0","0","1",",","A","1","/","B","2","/","C","3">>

\* C5 amended: the three-comma reply is split into the five fields and setup ends ready
C5_IdentificationSplit ==
  (SetupOver /\ idnReply = IdnThreeCommas)
  => (/\ pc = "done" /\ pport.init = 1
      /\ Field(pport, "model") = <<"K","E","I","T","H","L","E","Y",",","M","O","D","E","L","6","4","8","5">>
      /\ Field(pport, "serial") = <<"S","N","0","0","1">>
      /\ Field(pport, "dig_rev") = <<"A","1">>
      /\ Field(pport, "disp_rev") = <<"B","2">>
      /\ Field(pport, "brd_rev") = <<"C","3">>)

C5_Witness == pc = "done" /\ idnReply = IdnThreeCommas /\ pport.init = 1

(***************************************************************************)
(* C6  When the identification reply lacks a delimiter the parser looks    *)
(* for, setup fails: it returns an error, ready stays false and no field   *)
(* is taken from a NULL position.                                          *)
(* The code never tests what strchr returns.                               *)
(***************************************************************************)
\* C6: a reply lacking a delimiter ends setup with an error and init = 0
C6_MissingDelimiterFails ==
  (SetupOver /\ idnReply # NullPtr /\ ParseIdn(idnReply).ub)
  => (/\ pc = "failed"
      /\ pport.init = 0
      /\ ~crashed)

(***************************************************************************)
(* C7  As stated: with the limit-test bit (bit 4) of the stored status     *)
(* clear, an Integer read of STATUS_LIMITS returns the pass code 0; with   *)
(* it set, the 2-bit limit result (bits 5 and 6).                          *)
(***************************************************************************)
LimitsRead ==
  /\ acc.op = "read" /\ acc.id = "STATUS_LIMITS_CMD" /\ acc.Iface = Int32
  /\ acc.pre.init = 1

\* C7 as stated: limit test off reads as the pass code 0
C7_Original ==
  LimitsRead
  => (/\ acc.status = asynSuccess
      /\ acc.out = IF (acc.pre.data.raw \div 16) % 2 = 0
                   THEN <<0>>
                   ELSE <<(acc.pre.data.raw \div 32) % 4>>)

(***************************************************************************)
(* C7 amended  With the limit-test bit clear the read returns the code 3   *)
(* (not a value of the limit result in use, and not the pass code 0)       *)
(* whatever bits 5 and 6 are; with it set, the 2-bit limit result.         *)
(***************************************************************************)
\* C7 amended: limit test off reads as the code 3, limit test on as the limit result
C7_LimitsCode ==
  LimitsRead
  => (/\ acc.status = asynSuccess
      /\ acc.sent = <<>>
      /\ acc.out = IF (acc.pre.data.raw \div 16) % 2 = 0
                   THEN <<3>>
                   ELSE <<(acc.pre.data.raw \div 32) % 4>>)

\* limit test off in the stored status, limit-result bits left set
C7_Witness ==
  /\ LimitsRead
  /\ (acc.pre.data.raw \div 16) % 2 = 0
  /\ (acc.pre.data.raw \div 32) % 4 # 0

(***************************************************************************)
(* C8  As stated: for v in 0..7 and each range parameter, an Integer read  *)
(* whose reply is the numeric text the Integer write of v sends            *)
(* (2.0e<v-9>) returns v.                                                  *)
(***************************************************************************)
RangeReadInt32 ==
  /\ acc.op = "read" /\ acc.id \in RangeIds /\ acc.Iface = Int32
  /\ ExchangeOk

\* C8 as stated: the text the write of v sends reads back as v
C8_Original ==
  RangeReadInt32
  => \A v \in 0..7 :
       acc.io.reply = AfterSpace(RangeCommand(acc.id, v))
       => (acc.status = asynSuccess /\ acc.out = <<v>>)

(***************************************************************************)
(* C8 amended  The read looks for an upper-case E: with the exponent       *)
(* marker in upper case (2.0E<v-9>, as the instrument prints it) the text  *)
(* of the write of v reads back as v, for v in 0..7 and each range         *)
(* parameter; the text as written, with a lower-case e, makes the read     *)
(* fail.                                                                   *)
(***************************************************************************)
\* C8 amended: the written text with an upper-case E reads back as v, as written it fails
C8_RangeRoundTrip ==
  RangeReadInt32
  => \A v \in 0..7 :
       /\ acc.io.reply = UpperE(AfterSpace(RangeCommand(acc.id, v)))
            => (acc.status = asynSuccess /\ acc.out = <<v>>)
       /\ acc.io.reply = AfterSpace(RangeCommand(acc.id, v))
            => (acc.status = asynError /\ acc.out = NoValue)

C8_Witness ==
  /\ RangeReadInt32
  /\ acc.id = "RANGE_AUTO_ULIMIT_CMD"
  /\ acc.io.reply = UpperE(AfterSpace(RangeCommand(acc.id, 5)))
  /\ acc.out = <<5>>

(***************************************************************************)
(* C9  An Integer write of a range value outside 0..7 returns an error and *)
(* sends nothing, no counter changes; an Integer write of v in 0..7 to     *)
(* RANGE sends the one write-only command ":RANGE 2.0e<v-9>", so v = 0     *)
(* sends ":RANGE 2.0e-9".                                                  *)
(***************************************************************************)
RangeExponentText ==
  << <<"-","9">>, <<"-","8">>, <<"-","7">>, <<"-","6">>,
     <<"-","5">>, <<"-","4">>, <<"-","3">>, <<"-","2">> >>

RangeWriteInt32 ==
  /\ acc.op = "write" /\ acc.id \in RangeIds /\ acc.Iface = Int32
  /\ acc.pre.init = 1

\* C9: a range value outside 0..7 is refused with nothing sent; v in 0..7 sends :RANGE 2.0e<v-9>
C9_RangeWrite ==
  RangeWriteInt32
  => LET v == acc.value[1]
     IN  /\ v \notin 0..7
              => (/\ acc.status = asynError
                  /\ acc.sent = <<>>
                  /\ pport = acc.pre)
         /\ (v \in 0..7 /\ acc.id = "RANGE_CMD")
              => acc.sent = <<[kind |-> "write",
                               cmd  |-> <<":","R","A","N","G","E"," ","2",".","0","e">> \o RangeExponentText[v + 1]]>>
         /\ (v = 0 /\ acc.id = "RANGE_CMD")
              => acc.sent[1].cmd = <<":","R","A","N","G","E"," ","2",".","0","e","-","9">>

\* the value 8 is refused
C9_Witness == RangeWriteInt32 /\ acc.value = <<8>> /\ acc.status = asynError

(***************************************************************************)
(* C10  Rate round trip, in both drivers: for r in {0,1,2} an Integer read *)
(* of RATE whose reply is the NPLC constant the write of r sends returns   *)
(* r (value > 1.0 gives 0, else value > 0.1 gives 1, else 2).              *)
(* The 6485 driver compares the uninitialized rate, not the value.         *)
(***************************************************************************)
\* C10: the NPLC constant of rate r reads back as r in both drivers
C10_RateRoundTrip ==
  (/\ acc.op = "read" /\ acc.id = "RATE_CMD" /\ acc.Iface = Int32
   /\ ExchangeOk)
  => \A r \in 0..2 :
       acc.io.reply = AfterSpace(CmdNPLC \o FormatG(RateNPLC(r)))
       => (acc.status = asynSuccess /\ acc.out = <<r>>)

(***************************************************************************)
(* C11  Name resolution is case-insensitive and total over the table.      *)
(***************************************************************************)
\* two texts spell the same name when they differ at most in letter case
SameLetter(a, b) ==
  \/ a = b
  \/ \E j \in 1..26 : {a, b} = {LowerCase[j], UpperCase[j]}

SameName(a, b) ==
  /\ Len(a) = Len(b)
  /\ \A k \in 1..Len(a) : SameLetter(a[k], b[k])

\* the rows of the running table that drvInfo names
RowsNamed(drvInfo) ==
  {i \in 1..COMMAND_NUMBER(driver) :
     SameName(drvInfo, commandTable(driver)[i].tag)}

Created == acc.op = "create"

NotFound == acc.status = asynError /\ acc.errlog = ErrNoTag

\* C11 as stated: every name of the table, in any casing, resolves to the
\* index of its own row, and a name of no row fails with NotFound
C11_Original ==
  Created =>
    /\ \A i \in RowsNamed(acc.drvInfo) :
         acc.status = asynSuccess /\ acc.reason = i - 1
    /\ RowsNamed(acc.drvInfo) = {} => NotFound

\* the row is for every device type or for the type of this connection
ForThisDevice(i, p) ==
  \/ commandTable(driver)[i].dev = DEV_ALL
  \/ commandTable(driver)[i].dev = p.devtype

\* C11 amended: every name of a row that is for this connection's device type,
\* in any casing, resolves to the index of that row; a name of no row fails
\* with NotFound and leaves the handle at 0
C11_ResolveOwnRow ==
  Created =>
    /\ \A i \in RowsNamed(acc.drvInfo) :
         ForThisDevice(i, acc.pre) =>
           acc.status = asynSuccess /\ acc.reason = i - 1
    /\ RowsNamed(acc.drvInfo) = {} => NotFound /\ acc.reason = 0
    /\ pport = acc.pre

\* a mixed-case name is resolved to its row
C11_Witness ==
  /\ Created
  /\ acc.drvInfo = <<"R","a","N","g","E","_","A","u","T","o","_","u","L","i","M","i","T">>
  /\ acc.status = asynSuccess /\ acc.reason = 3

(***************************************************************************)
(* C12  A name of a row for another device type fails to resolve, with an  *)
(* outcome the caller can tell from that of an unknown name.               *)
(***************************************************************************)
\* what create hands back to its caller
Returned(r) == <<r.status, r.reason>>

\* C12: the name of a row restricted to another device type fails, what the
\* caller gets back differs from what it gets for a name of no row, and the
\* same name resolves on a port of the matching type
C12_WrongVariantDistinct ==
  Created =>
    \A i \in RowsNamed(acc.drvInfo) :
      IF ForThisDevice(i, acc.pre)
      THEN acc.status = asynSuccess /\ acc.reason = i - 1
      ELSE /\ acc.status = asynError
           /\ \A u \in UnknownNames :
                Returned(acc) # Returned(create(driver, acc.pre, u))

(***************************************************************************)
(* C13  A read of a cached parameter on a ready port starts no exchange,   *)
(* succeeds and changes nothing in the port.                               *)
(***************************************************************************)
CachedRead ==
  /\ acc.op = "read"
  /\ commandTable(driver)[acc.which].type = CMD_CACHE
  /\ acc.pre.init = 1

\* C13: every read of a cached parameter on a ready port returns success,
\* sends nothing and leaves the port, statistics included, as it was
C13_CachedReadPure ==
  CachedRead =>
    /\ acc.status = asynSuccess
    /\ acc.sent = <<>>
    /\ pport = acc.pre
    /\ ~crashed

(***************************************************************************)
(* C14  Simple handlers: an access in a kind other than the entry's is a   *)
(* silent success; a trigger entry sends its bare verb on every write and  *)
(* nothing on a read.                                                      *)
(***************************************************************************)
SimpleAccess ==
  /\ acc.op \in {"read", "write"}
  /\ commandTable(driver)[acc.which].type = CMD_SIMPLE
  /\ acc.pre.init = 1

TriggerIds == {"RESET_CMD", "ZERO_CORRECT_ACQUIRE_CMD"}

TriggerVerb(id) ==
  IF id = "RESET_CMD" THEN <<"*","R","S","T">>
  ELSE <<"S","Y","S","T",":","Z","C","O","R",":","A","C","Q">>

Untouched == acc.sent = <<>> /\ pport = acc.pre /\ ~crashed

\* C14: a simple entry of the Integer kind accessed in another kind returns
\* success, sends nothing and changes nothing; a write of a trigger entry sends
\* the bare verb in every kind; a read of a trigger entry does nothing
C14_SimpleKinds ==
  SimpleAccess =>
    /\ (acc.id \notin TriggerIds /\ acc.Iface # Int32)
         => acc.status = asynSuccess /\ Untouched
    /\ (acc.id \in TriggerIds /\ acc.op = "write")
         => acc.sent = <<[kind |-> "write", cmd |-> TriggerVerb(acc.id)]>>
    /\ (acc.id \in TriggerIds /\ acc.op = "read")
         => acc.status = asynSuccess /\ Untouched

\* a Float64 write of RESET has put the bare verb on the wire
C14_Witness ==
  /\ SimpleAccess /\ acc.op = "write" /\ acc.id = "RESET_CMD"
  /\ acc.Iface = Float64
  /\ acc.sent = <<[kind |-> "write", cmd |-> <<"*","R","S","T">>]>>
  /\ acc.status = asynSuccess

(***************************************************************************)
(* C15  Direct handlers of range, rate and digital filter control accessed *)
(* in a kind other than Integer.                                           *)
(***************************************************************************)
EnumIds == RangeIds \cup {"RATE_CMD", "DIGITAL_FILTER_CONTROL_CMD"}

OtherKindAccess ==
  /\ acc.op \in {"read", "write"}
  /\ acc.id \in EnumIds
  /\ acc.Iface # Int32
  /\ acc.pre.init = 1

\* C15 as stated: every such access returns success, starts no exchange and
\* changes nothing
C15_Original ==
  OtherKindAccess => acc.status = asynSuccess /\ Untouched

RangeFloatRead ==
  OtherKindAccess /\ acc.op = "read" /\ acc.id \in RangeIds /\ acc.Iface = Float64

RangeQueryText(id) ==
  CASE id = "RANGE_CMD" -> <<":","R","A","N","G","E","?">>
    [] id = "RANGE_AUTO_ULIMIT_CMD" ->
         <<":","R","A","N","G","E",":","A","U","T","O",":","U","L","I","M","?">>
    [] id = "RANGE_AUTO_LLIMIT_CMD" ->
         <<":","R","A","N","G","E",":","A","U","T","O",":","L","L","I","M","?">>

\* C15 amended: in Text or Float64 the accesses are silent successes, except
\* the Float64 read of a range parameter, which queries the device and
\* returns the number of the reply, an error when that number is 0
C15_OtherKinds ==
  OtherKindAccess =>
    IF RangeFloatRead
    THEN /\ acc.sent = <<[kind |-> "writeRead", cmd |-> RangeQueryText(acc.id)]>>
         /\ ExchangeFailed => acc.status # asynSuccess /\ acc.out = NoValue
         /\ ExchangeOk =>
              IF atof(acc.io.reply) = DecZero
              THEN acc.status = asynError /\ acc.out = NoValue
              ELSE acc.status = asynSuccess /\ acc.out = <<atof(acc.io.reply)>>
    ELSE acc.status = asynSuccess /\ Untouched /\ acc.out = NoValue

\* a Float64 read of RANGE has returned the range as a number
C15_Witness ==
  /\ RangeFloatRead /\ acc.id = "RANGE_CMD"
  /\ acc.io.reply = <<"2",".","1","0","0","0","0","0","E","-","0","6">>
  /\ acc.status = asynSuccess
  /\ acc.out = <<Dec(21, -7)>>

(***************************************************************************)
(* C16  A Text read hands the host at most 39 characters.                  *)
(***************************************************************************)
TextRead == acc.op = "read" /\ acc.Iface = Octet /\ acc.pre.init = 1

\* the identification field a cached parameter reads
IdentFieldOf(id) ==
  CASE id = "MODEL_CMD" -> "model"
    [] id = "SERIAL_CMD" -> "serial"
    [] id = "DIG_REV_CMD" -> "dig_rev"
    [] id = "DISP_REV_CMD" -> "disp_rev"
    [] id = "BRD_REV_CMD" -> "brd_rev"

IdentIds == {"MODEL_CMD", "SERIAL_CMD", "DIG_REV_CMD", "DISP_REV_CMD", "BRD_REV_CMD"}

Min(a, b) == IF a < b THEN a ELSE b

First39(s) == SubSeq(s, 1, Min(Len(s), 39))

\* lengths around the limit, up to the longest reply a buffer holds
TextLengths == {0, 1, 38, 39, 40, 41, 99}

TextOf(n) == [i \in 1..n |-> "x"]

\* C16: no Text read hands over more than 39 characters; a cached
\* identification field and a simple-handler reply are copied whole up to 39
\* characters and cut to the first 39 beyond, the cached length being min(L, 39)
C16_TextReadCapped ==
  /\ (TextRead /\ acc.status = asynSuccess /\ acc.out # NoValue)
       => Len(acc.out[1]) <= 39
  /\ (TextRead /\ acc.id \in IdentIds
        /\ Field(acc.pre, IdentFieldOf(acc.id)) # NullPtr)
       => LET f == Field(acc.pre, IdentFieldOf(acc.id))
          IN  /\ acc.status = asynSuccess
              /\ acc.out = <<First39(f)>>
              /\ acc.length = Min(Len(f), 39)
  /\ \A n \in TextLengths : Truncate39(TextOf(n)) = First39(TextOf(n))

(***************************************************************************)
(* C17  The Integer cached reads decode the stored status word bit by bit. *)
(***************************************************************************)
\* the mask of each status parameter that is a single bit
StatusMask(id) ==
  CASE id = "STATUS_OVERFLOW_CMD" -> 1
    [] id = "STATUS_FILTER_CMD" -> 2
    [] id = "STATUS_MATH_CMD" -> 4
    [] id = "STATUS_NULL_CMD" -> 8
    [] id = "STATUS_OVERVOLTAGE_CMD" -> 128
    [] id = "STATUS_ZERO_CHECK_CMD" -> 512
    [] id = "STATUS_ZERO_CORRECT_CMD" -> 1024

StatusBitIds ==
  {"STATUS_OVERFLOW_CMD", "STATUS_FILTER_CMD", "STATUS_MATH_CMD",
   "STATUS_NULL_CMD", "STATUS_OVERVOLTAGE_CMD", "STATUS_ZERO_CHECK_CMD",
   "STATUS_ZERO_CORRECT_CMD"}

Masked(raw, mask) == IF raw % (2 * mask) >= mask THEN 1 ELSE 0

IntegerCachedRead ==
  acc.op = "read" /\ acc.Iface = Int32 /\ acc.pre.init = 1

\* C17: an Integer read of a status bit returns that bit of the stored raw
\* word and nothing of the other bits, and STATUS_RAW returns the word
C17_StatusDecode ==
  IntegerCachedRead =>
    /\ acc.id \in StatusBitIds =>
         /\ acc.status = asynSuccess
         /\ acc.out = <<Masked(acc.pre.data.raw, StatusMask(acc.id))>>
    /\ acc.id = "STATUS_RAW_CMD" =>
         /\ acc.status = asynSuccess
         /\ acc.out = <<acc.pre.data.raw>>

\* zero check read as 0 from a word with every other bit set
C17_Witness ==
  /\ IntegerCachedRead /\ acc.id = "STATUS_ZERO_CHECK_CMD"
  /\ acc.pre.data.raw = 1535
  /\ acc.out = <<0>>

(***************************************************************************)
(* C18  A short write is a failure of the exchange even when the transport *)
(* reports success.                                                        *)
(***************************************************************************)
\* the transport reported success but fewer bytes written than requested
ShortWrite == Exchanged /\ acc.io.status = asynSuccess /\ acc.io.short

\* C18: in writeOnly and in writeRead a short write with a success status
\* returns an error, adds 1 to ioErrors and leaves both success counters
C18_ShortWriteFails ==
  ShortWrite =>
    /\ acc.sent[1].kind \in {"write", "writeRead"}
    /\ acc.status = asynError
    /\ pport.stats.ioErrors = acc.pre.stats.ioErrors + 1
    /\ pport.stats.writeOnlys = acc.pre.stats.writeOnlys
    /\ pport.stats.writeReads = acc.pre.stats.writeReads

\* a short write in writeRead on a port that has counted a failure before
C18_Witness ==
  /\ ShortWrite /\ acc.sent[1].kind = "writeRead"
  /\ acc.pre.stats.ioErrors = 1 /\ acc.pre.stats.writeOnlys = 1
  /\ pport.stats.ioErrors = 2

(***************************************************************************)
(* C19  A failed setup leaves no port with the host.                       *)
(***************************************************************************)
\* C19: once setup has failed at any step the port is neither registered
\* with the host nor are its interfaces advertised
C19_FailedSetupLeavesNoPort ==
  pc = "failed" => ~registered /\ ~advertised

(***************************************************************************)
(* C20  The cached timestamp and raw status are those of the reply of the  *)
(* latest successful sensor read; nothing else changes last_reading.       *)
(***************************************************************************)
\* the integer a field of a reply reads as
FieldInt(reply, k) == DecToInt(atof(Fields(reply)[k]))

\* what a cached Integer read is to return for field k of the sensor reply
FromLastSensor(k) ==
  IF lastSensor = NullPtr THEN acc.out = <<0>>
  ELSE Len(Fields(lastSensor)) >= 3 /\ acc.out = <<FieldInt(lastSensor, k)>>

SensorRead == acc.op = "read" /\ acc.id = "READ_CMD"

\* C20: on a ready port TIMESTAMP and STATUS_RAW read as integers return the
\* second and third field of the reply of the latest successful sensor read,
\* 0 when there was none, and only a sensor read changes last_reading
C20_CachedFollowsLastSensor ==
  /\ (IntegerCachedRead /\ acc.id = "TIMESTAMP_CMD") => FromLastSensor(2)
  /\ (IntegerCachedRead /\ acc.id = "STATUS_RAW_CMD") => FromLastSensor(3)
  /\ (acc.op \in {"read", "write"} /\ ~SensorRead)
       => LastReading(pport) = LastReading(acc.pre)

(***************************************************************************)
(* C21  A cached parameter read in a kind that is not its own is a silent  *)
(* success.                                                                *)
(***************************************************************************)
\* the kind a cached parameter is stored in
NativeKind(id) == IF id \in IdentIds THEN Octet ELSE Int32

\* C21: a read of a cached parameter in another kind than its own returns
\* success without an invalid access, sends nothing and changes nothing
C21_CachedOtherKindSilent ==
  (CachedRead /\ acc.Iface # NativeKind(acc.id))
    => acc.status = asynSuccess /\ Untouched

(***************************************************************************)
(* C22  The statistics count the exchanges: one counter, one step up, per  *)
(* exchange.                                                               *)
(***************************************************************************)
\* exchanges started since the port was created: by setup and by host accesses
ExchangesStarted == Len(setupWire) + hostExchanges

StatsSum(p) == p.stats.ioErrors + p.stats.writeReads + p.stats.writeOnlys

SuccessCounter(kind) == IF kind = "write" THEN "writeOnlys" ELSE "writeReads"

\* what one step does to the counters
StepCounts ==
  LET d(f)    == pport'.stats[f] - pport.stats[f]
      bySetup == Len(setupWire') - Len(setupWire)
      byHost  == hostExchanges' - hostExchanges
      Counted(kind, ok) ==
        IF ok THEN d(SuccessCounter(kind)) = 1 ELSE d("ioErrors") = 1
  IN  /\ d("ioErrors") >= 0 /\ d("writeReads") >= 0 /\ d("writeOnlys") >= 0
      /\ d("ioErrors") + d("writeReads") + d("writeOnlys") = bySetup + byHost
      /\ bySetup + byHost \in {0, 1}
      /\ bySetup = 1 =>
           Counted(setupWire'[Len(setupWire')].kind, setupLog'[Len(setupLog')].ok)
      /\ byHost = 1 =>
           Counted(acc'.sent[1].kind,
                   acc'.io.status = asynSuccess /\ ~acc'.io.short)

\* C22: no counter ever decreases, every exchange adds 1 to exactly one of
\* them (its success counter, or ioErrors when it failed), and the three
\* together equal the number of exchanges started
C22_CountersCountExchanges ==
  /\ [](StatsSum(pport) = ExchangesStarted)
  /\ [][StepCounts]_vars

\* all three counters have counted: *CLS, *IDN?, a good and a failed exchange
C22_Witness ==
  /\ ExchangesStarted = 4
  /\ pport.stats = [ioErrors |-> 1, writeReads |-> 2, writeOnlys |-> 1]

(***************************************************************************)
(* C23  After setup nothing writes ready or the identification fields.     *)
(***************************************************************************)
\* init and what the five identification pointers designate
Identity(p) ==
  <<p.init, p.model, p.serial, p.dig_rev, p.disp_rev, p.brd_rev>>

\* C23: once setup has completed no step, so no read or write of any
\* parameter and kind, changes init or an identification field
C23_IdentityFrozen ==
  [][pc = "done" => Identity(pport') = Identity(pport)]_vars

\* a sensor read has changed the port and left init and the fields alone
C23_Witness ==
  /\ SensorRead /\ acc.status = asynSuccess
  /\ pport.data # acc.pre.data
  /\ Identity(pport) = Identity(acc.pre) /\ pport.init = 1

(***************************************************************************)
(* C24  Everything handed to the transport is a command of the wire        *)
(* vocabulary.                                                             *)
(***************************************************************************)
\* commands without argument or query form
BareCommands ==
  { <<"*","C","L","S">>,
    <<"*","I","D","N","?">>,
    <<"*","R","S","T">>,
    <<"R","E","A","D","?">>,
    <<"S","Y","S","T",":","Z","C","O","R",":","A","C","Q">> }

\* verbs that take "?" or " <argument>"
ArgumentVerbs ==
  { <<":","R","A","N","G","E">>,
    <<":","R","A","N","G","E",":","A","U","T","O",":","U","L","I","M">>,
    <<":","R","A","N","G","E",":","A","U","T","O",":","L","L","I","M">>,
    <<":","R","A","N","G","E",":","A","U","T","O">>,
    <<":","N","P","L","C">>,
    <<"S","Y","S","T",":","Z","C","H">>,
    <<"S","Y","S","T",":","Z","C","O","R">>,
    <<"M","E","D">>,
    <<"M","E","D",":","R","A","N","K">>,
    <<"A","V","E","R">>,
    <<"A","V","E","R",":","C","O","U","N">>,
    <<"A","V","E","R",":","T","C","O","N">> }

IsPrefix(a, b) == Len(a) <= Len(b) /\ SubSeq(b, 1, Len(a)) = a

\* a bare command, a query, or a verb, one space and an argument without spaces
IsWireCommand(cmd) ==
  \/ cmd \in BareCommands
  \/ \E v \in ArgumentVerbs :
       /\ IsPrefix(v, cmd)
       /\ LET rest == SubSeq(cmd, Len(v) + 1, Len(cmd))
          IN  \/ rest = <<"?">>
              \/ /\ Len(rest) >= 2 /\ rest[1] = " "
                 /\ \A i \in 2..Len(rest) : rest[i] \notin {" ", NUL}

\* C24: every command setup and the handlers hand to the transport is a fully
\* formed command of the wire vocabulary
C24_WireCommandsWellFormed ==
  /\ \A i \in 1..Len(setupWire) : IsWireCommand(setupWire[i].cmd)
  /\ acc.op \in {"read", "write"} =>
       \A i \in 1..Len(acc.sent) : IsWireCommand(acc.sent[i].cmd)

(***************************************************************************)
(* C25  Digital filter control: MOV is 0, REP is 1, nothing else is        *)
(* accepted either way.                                                    *)
(***************************************************************************)
FilterControlInt32 ==
  /\ acc.op \in {"read", "write"}
  /\ acc.id = "DIGITAL_FILTER_CONTROL_CMD" /\ acc.Iface = Int32
  /\ acc.pre.init = 1

TconWrite(token) ==
  <<[kind |-> "write",
     cmd |-> <<"A","V","E","R",":","T","C","O","N"," ">> \o token]>>

\* C25: an Integer read returns 0 for the reply MOV, 1 for REP and an error
\* without a value for any other reply; an Integer write of 0 sends
\* AVER:TCON MOV, of 1 AVER:TCON REP, of another value nothing, with an error
C25_FilterControl ==
  FilterControlInt32 =>
    /\ (acc.op = "read" /\ ExchangeOk) =>
         CASE acc.io.reply = <<"M","O","V">> ->
                acc.status = asynSuccess /\ acc.out = <<0>>
           [] acc.io.reply = <<"R","E","P">> ->
                acc.status = asynSuccess /\ acc.out = <<1>>
           [] OTHER -> acc.status = asynError /\ acc.out = NoValue
    /\ acc.op = "write" =>
         CASE acc.value = <<0>> -> acc.sent = TconWrite(<<"M","O","V">>)
           [] acc.value = <<1>> -> acc.sent = TconWrite(<<"R","E","P">>)
           [] OTHER -> acc.status = asynError /\ acc.sent = <<>>

\* the reply MOVE is refused
C25_Witness ==
  /\ FilterControlInt32 /\ acc.op = "read" /\ ExchangeOk
  /\ acc.io.reply = <<"M","O","V","E">>
  /\ acc.status = asynError

(***************************************************************************)
(* C26  A successful Integer read of a range parameter returns a value of  *)
(* 0..7, 9 + the exponent of the reply.                                    *)
(***************************************************************************)
HasMarker(reply) == \E i \in 1..Len(reply) : reply[i] = "E"

\* the decimal exponent after the first E of a reply that has one
ExponentOf(reply) ==
  LET k == CHOOSE i \in 1..Len(reply) :
             reply[i] = "E" /\ \A j \in 1..(i - 1) : reply[j] # "E"
  IN  atoi(SubSeq(reply, k + 1, Len(reply)))

\* C26: a successful Integer read of a range parameter returns 9 + the
\* exponent of the reply, a value of 0..7; a reply without E fails, no value
C26_RangeReadInEnumeration ==
  RangeReadInt32 =>
    (IF HasMarker(acc.io.reply)
     THEN (acc.status = asynSuccess =>
             (/\ acc.out = <<9 + ExponentOf(acc.io.reply)>>
              /\ acc.out[1] \in 0..7))
     ELSE (acc.status = asynError /\ acc.out = NoValue))

(***************************************************************************)
(* C27  An Integer write of a RATE value outside 0..2 fails and sends      *)
(* nothing; 0, 1, 2 send one write-only :NPLC 6, :NPLC 1, :NPLC 0.1 and    *)
(* return what the write-only exchange returned.                           *)
(***************************************************************************)
RateWriteInt32 ==
  /\ acc.op = "write" /\ acc.id = "RATE_CMD" /\ acc.Iface = Int32
  /\ acc.pre.init = 1

\* the text sent for the rates 0, 1, 2
NplcText ==
  << <<":","N","P","L","C"," ","6">>,
     <<":","N","P","L","C"," ","1">>,
     <<":","N","P","L","C"," ","0",".","1">> >>

\* what a write-only exchange returns for an outcome of the transport
WriteOnlyOutcome(io) == IF io.short THEN asynError ELSE io.status

\* C27: on a ready port an Integer write of a RATE value outside 0..2 returns
\* an error and sends nothing; a write of 0, 1 or 2 sends exactly one write-only command
\* :NPLC 6, :NPLC 1 or :NPLC 0.1 and returns the outcome of that exchange
C27_RateWrite ==
  RateWriteInt32 =>
    (IF acc.value[1] \in 0..2
     THEN (/\ acc.sent = <<[kind |-> "write", cmd |-> NplcText[acc.value[1] + 1]]>>
           /\ acc.status = WriteOnlyOutcome(acc.io))
     ELSE (acc.status = asynError /\ acc.sent = <<>> /\ pport = acc.pre))

\* the rate 2 is sent as :NPLC 0.1 and the exchange times out
C27_Witness ==
  /\ RateWriteInt32 /\ acc.value = <<2>>
  /\ acc.sent[1].cmd = NplcText[3]
  /\ acc.io.status = asynTimeout /\ acc.status = asynTimeout

\* the rate 3 is refused
C27_WitnessRefused ==
  RateWriteInt32 /\ acc.value = <<3>> /\ acc.status = asynError

(***************************************************************************)
(* C28  A successful sensor read makes one READ? exchange and stores the   *)
(* fields of the reply as last_reading whatever the kind asked for; Text   *)
(* returns the first field, Float64 the reading, Integer no value.         *)
(***************************************************************************)
SensorReadOk == SensorRead /\ acc.status = asynSuccess

\* component k of last_reading as field k of the reply gives it
FieldStored(reply, k) ==
  IF k = 1 THEN atof(Fields(reply)[1]) ELSE FieldInt(reply, k)

\* C28: a successful sensor read has made exactly one READ? exchange and has
\* stored each field of the reply in last_reading, the same for Text, Float64
\* and Integer; Text returns the first field only, Float64 the reading,
\* Integer no value
C28_SensorReadKinds ==
  SensorReadOk =>
    (/\ acc.sent = <<[kind |-> "writeRead", cmd |-> <<"R","E","A","D","?">>]>>
     /\ \A k \in 1..3 :
          k <= Len(Fields(acc.io.reply))
            => LastReading(pport)[k] = FieldStored(acc.io.reply, k)
     /\ acc.Iface = Octet =>
          (/\ acc.out = <<Fields(acc.io.reply)[1]>>
           /\ acc.length = Len(Fields(acc.io.reply)[1]))
     /\ acc.Iface = Float64 => acc.out = <<atof(Fields(acc.io.reply)[1])>>
     /\ acc.Iface = Int32 => acc.out = NoValue)

\* an Integer sensor read returns nothing and has replaced last_reading
C28_Witness ==
  /\ SensorReadOk /\ acc.Iface = Int32
  /\ acc.io.reply = <<"2",".","5","E","-","3",",","7",",","4","8">>
  /\ LastReading(pport) = <<Dec(25, -4), 7, 48>>
  /\ LastReading(acc.pre) # LastReading(pport)

(***************************************************************************)
(* C29  A write of any kind and value to a cached parameter on a ready     *)
(* port returns success, starts no exchange and changes nothing.           *)
(***************************************************************************)
CachedWrite ==
  /\ acc.op = "write"
  /\ commandTable(driver)[acc.which].type = CMD_CACHE
  /\ acc.pre.init = 1

\* C29: a write of any kind and value to a cached parameter on a ready port
\* returns success, starts no transport exchange and leaves every field of
\* the port, last_reading and the identity included, as it was
C29_CachedWriteInert ==
  CachedWrite =>
    (/\ acc.status = asynSuccess
     /\ acc.sent = <<>>
     /\ pport = acc.pre
     /\ ~crashed)

\* a Float64 write to TIMESTAMP after a sensor read has stored one
C29_Witness ==
  /\ CachedWrite /\ acc.id = "TIMESTAMP_CMD" /\ acc.Iface = Float64
  /\ acc.status = asynSuccess
  /\ pport.data.timestamp = 7

(***************************************************************************)
(* C30  A failed create leaves index 0, the VOID row, as the caller's      *)
(* handle; an access through that handle on a ready port does nothing and  *)
(* succeeds.                                                               *)
(***************************************************************************)
CreateFailed == Created /\ acc.status # asynSuccess

\* the row a handle (a C index) names is the VOID row, served by the dummies
NamesVoid(reason) ==
  LET row == commandTable(driver)[reason + 1]
  IN  /\ row.id = "VOID_CMD" /\ row.type = CMD_GEN
      /\ genCommandTable(driver)[row.id].readFunc = "readDummy"
      /\ genCommandTable(driver)[row.id].writeFunc = "writeDummy"

\* an access through the handle the latest failed create left, ready port
ThroughFailedHandle ==
  /\ acc.op \in {"read", "write"}
  /\ failedHandle # NoValue
  /\ acc.which = failedHandle[1] + 1
  /\ acc.pre.init = 1

\* C30: a failed name resolution, unknown name or wrong variant, leaves index 0
\* in the caller's handle, the VOID row; an access made later through that
\* handle on a ready port returns success without a value, starts no exchange
\* and changes no state
C30_FailedHandleIsVoid ==
  /\ CreateFailed =>
       (acc.reason = 0 /\ failedHandle = <<0>> /\ NamesVoid(acc.reason))
  /\ ThroughFailedHandle =>
       (/\ acc.id = "VOID_CMD"
        /\ acc.status = asynSuccess /\ acc.out = NoValue
        /\ acc.sent = <<>>
        /\ pport = acc.pre
        /\ ~crashed)

\* after a create that failed, an Integer read through the handle it left
C30_Witness ==
  /\ ThroughFailedHandle /\ acc.op = "read" /\ acc.Iface = Int32
  /\ acc.id = "VOID_CMD" /\ acc.status = asynSuccess
  /\ driver = "648x"

=============================================================================
